---- MODULE Spec2Model ----
(***************************************************************************)
(* Reference-integrity and soft-delete lifecycle of the Shrishay           *)
(* Foundation backend: Event and Blog documents that reference Media       *)
(* documents through heroImage, gallery and video, and the usedIn usage    *)
(* records the controllers keep on each Media document.                    *)
(*                                                                         *)
(* The MongoDB collections are the state.  ObjectIds are small integers.   *)
(* The usedIn array of a Media document is kept as a multiset (a count per *)
(* usage tuple): the controllers only $push to it, $pull from it and test  *)
(* its length, so the order of its elements is never read.                 *)
(*                                                                         *)
(* users is the User document of the one account (its stored refresh       *)
(* token), cookies the browser of that user; only the auth handlers write  *)
(* them.                                                                   *)
(***************************************************************************)
EXTENDS Integers, Sequences, FiniteSets, TLC

\* ---------------------------------------------------------------- bounds
NumMedia == 2
MaxGallery == 1
MaxClock == 2
MaxViews == 2
MaxTuples == 2
MaxTokens == 6

\* ------------------------------------------------------------ identifiers
MediaIds == 1..NumMedia
EventIds == {11, 12}
BlogIds == {21}
ItemIds == EventIds \cup BlogIds

ModelOf(id) == IF id \in EventIds THEN "Event" ELSE "Blog"

\* null / undefined of an ObjectId path and of a Date path
NoRef == 0
NoDate == 0

\* null of User.refreshToken, and a request without the refreshToken cookie
NoToken == 0

Statuses == {"draft", "published", "archived"}
Fields == {"heroImage", "gallery", "video"}

\* the media fields of each schema
FieldsOf(model) == IF model = "Event" THEN {"heroImage", "gallery"} ELSE Fields

Usage(model, modelId, field) == [model |-> model, modelId |-> modelId, field |-> field]

\* the elements Media.usedIn can hold: one per item and media field of its schema
UsageTuples ==
    UNION {{Usage(ModelOf(id), id, f) : f \in FieldsOf(ModelOf(id))} : id \in ItemIds}

EmptyUsedIn == [t \in UsageTuples |-> 0]

VARIABLES content, media, files, clock, resp, procs, users, cookies

vars == <<content, media, files, clock, resp, procs, users, cookies>>

\* ------------------------------------------------------------- utilities
SeqToSet(s) == {s[i] : i \in DOMAIN s}

Galleries == UNION {[1..n -> MediaIds] : n \in 0..MaxGallery}

Min(S) == CHOOSE x \in S : \A y \in S : x <= y

\* number of elements of a usedIn array
UsedInLength(u) == LET RECURSIVE Sum(_)
                       Sum(S) == IF S = {} THEN 0
                                 ELSE LET t == CHOOSE x \in S : TRUE
                                      IN u[t] + Sum(S \ {t})
                   IN Sum(UsageTuples)

\* isInUse with the length test off by one
isInUse_offByOne(m) == UsedInLength(m.usedIn) > 1

\* Media.isInUse virtual
isInUse(m) == UsedInLength(m.usedIn) > 0

\* ------------------------------------------------------------------ slugs
\* slugify(title, {lower: true, strict: true, remove: /[*+~.()'"!:@]/g}),
\* over the characters the modelled titles are written in
TitleChars == {"G", "g", "a", " ", "!", "-"}

IsSpace(c) == c = " "

\* the replacement character is turned into a space before anything else
MapChar(c) == IF c = "-" THEN " " ELSE c

\* options.remove
InRemoveClass(c) == c = "!"

\* options.strict keeps [A-Za-z0-9\s]
StrictKeeps(c) == c \in {"G", "g", "a", " "}

ToLower(c) == IF c = "G" THEN "g" ELSE c

RECURSIVE TrimLeft(_)
TrimLeft(s) == IF s # <<>> /\ IsSpace(Head(s)) THEN TrimLeft(Tail(s)) ELSE s

RECURSIVE TrimRight(_)
TrimRight(s) == IF s # <<>> /\ IsSpace(s[Len(s)])
                THEN TrimRight(SubSeq(s, 1, Len(s) - 1)) ELSE s

\* String.prototype.trim
Trim(s) == TrimRight(TrimLeft(s))

\* slug.replace(/\s+/g, '-')
RECURSIVE ReplaceSpaces(_)
ReplaceSpaces(s) ==
    IF s = <<>> THEN <<>>
    ELSE IF IsSpace(Head(s))
         THEN <<"-">> \o ReplaceSpaces(TrimLeft(s))
         ELSE <<Head(s)>> \o ReplaceSpaces(Tail(s))

slugify(title) ==
    LET mapped   == [i \in 1..Len(title) |-> MapChar(title[i])]
        removed  == SelectSeq(mapped, LAMBDA c : ~InRemoveClass(c))
        strict   == SelectSeq(removed, StrictKeeps)
        replaced == ReplaceSpaces(Trim(strict))
    IN [i \in 1..Len(replaced) |-> ToLower(replaced[i])]

Digit(n) == CASE n = 0 -> "0" [] n = 1 -> "1" [] n = 2 -> "2" [] n = 3 -> "3"
              [] n = 4 -> "4" [] n = 5 -> "5" [] n = 6 -> "6" [] n = 7 -> "7"
              [] n = 8 -> "8" [] n = 9 -> "9"

\* the decimal rendering of Date.now() inside a template string
RECURSIVE Decimal(_)
Decimal(n) == IF n < 10 THEN <<Digit(n)>>
              ELSE Decimal(n \div 10) \o <<Digit(n % 10)>>

\* `${slugify(title)}-${Date.now()}`
generateSlug(title, now) == slugify(title) \o <<"-">> \o Decimal(now)

\* slug of a document that has never been saved
NoSlug == <<>>

\* -------------------------------------------------------------- documents
\* The paths of an Event or Blog document that the controllers and the
\* schema hooks read or write.  An Event has no video path.
NewDoc == [title |-> <<>>, slug |-> NoSlug, status |-> "draft",
           heroImage |-> NoRef, gallery |-> <<>>, video |-> NoRef,
           publishedAt |-> NoDate, views |-> 0,
           isDeleted |-> FALSE, deletedAt |-> NoDate]

\* the paths of each schema a request body can set
EventPaths == {"title", "status", "heroImage", "gallery"}
BlogPaths == {"title", "status", "heroImage", "gallery", "video"}

\* Casting of a value assigned to a path: the title setter trims
Cast(path, v) == IF path = "title" THEN Trim(v) ELSE v

\* Object.assign(doc, body) on a mongoose document: only schema paths are
\* set (strict mode), each through its setter
Assign(doc, body, paths) ==
    [f \in DOMAIN doc |-> IF f \in DOMAIN body /\ f \in paths
                          THEN Cast(f, body[f]) ELSE doc[f]]

\* doc.isModified(path) at save time
isModified(old, new, isNew, body, path) ==
    IF isNew THEN path \in DOMAIN body ELSE old[path] # new[path]

\* a pre-save hook that makes a new slug on every save
preSave_reslug(old, new, isNew, body, now) ==
    LET d1 == [new EXCEPT !.slug = generateSlug(new.title, now)]
    IN IF isModified(old, new, isNew, body, "status")
          /\ d1.status = "published" /\ d1.publishedAt = NoDate
       THEN [d1 EXCEPT !.publishedAt = now]
       ELSE d1

\* a pre-save hook that stamps publishedAt on every change to published
preSave_restamp(old, new, isNew, body, now) ==
    LET d1 == IF isModified(old, new, isNew, body, "title")
              THEN [new EXCEPT !.slug = generateSlug(new.title, now)]
              ELSE new
    IN IF isModified(old, new, isNew, body, "status")
          /\ d1.status = "published"
       THEN [d1 EXCEPT !.publishedAt = now]
       ELSE d1

\* schema.pre('save'): slug from a modified title, publishedAt on the first
\* save with status published
preSave(old, new, isNew, body, now) ==
    LET d1 == IF isModified(old, new, isNew, body, "title")
              THEN [new EXCEPT !.slug = generateSlug(new.title, now)]
              ELSE new
    IN IF isModified(old, new, isNew, body, "status")
          /\ d1.status = "published" /\ d1.publishedAt = NoDate
       THEN [d1 EXCEPT !.publishedAt = now]
       ELSE d1

\* the unique index on slug of the collection the document lives in
SlugIndexAllows(c, id, slug) ==
    \A j \in DOMAIN c : (ModelOf(j) = ModelOf(id) /\ j # id) => c[j].slug # slug

\* required paths of the schema (title; Blog.heroImage)
SchemaValid(id, doc) ==
    /\ doc.title # <<>>
    /\ ModelOf(id) = "Blog" => doc.heroImage # NoRef

\* Model.findById(id): the pre(/^find/) hook hides soft-deleted documents
\* unless the query sets includeDeleted
findById(c, id, includeDeleted) ==
    id \in DOMAIN c /\ (includeDeleted \/ ~c[id].isDeleted)

\* the store with document id written
Put(c, id, doc) == [j \in DOMAIN c \cup {id} |-> IF j = id THEN doc ELSE c[j]]

\* ------------------------------------------------------- usage mutations
\* a push that writes usedIn as a whole, with the new tuple only
Push_overwrite(m, t) ==
    [m EXCEPT !.usedIn = [u \in UsageTuples |-> IF u = t THEN 1 ELSE 0]]

\* { $push: { usedIn: t } } on one Media document
Push(m, t) == [m EXCEPT !.usedIn[t] = @ + 1]

\* { $pull: { usedIn: t } }: every element equal to t goes
Pull(m, t) == [m EXCEPT !.usedIn[t] = 0]

\* a $pull by item that removes the heroImage tuple only
PullItem_heroOnly(m, model, modelId) ==
    [m EXCEPT !.usedIn = [t \in UsageTuples |->
        IF t.model = model /\ t.modelId = modelId /\ t.field = "heroImage"
        THEN 0 ELSE @[t]]]

\* a $pull by model only: the tuples of every item of that model go
PullItem_wholeModel(m, model, modelId) ==
    [m EXCEPT !.usedIn = [t \in UsageTuples |->
        IF t.model = model THEN 0 ELSE @[t]]]

\* { $pull: { usedIn: { model, modelId } } }: every element of that item goes
PullItem(m, model, modelId) ==
    [m EXCEPT !.usedIn = [t \in UsageTuples |->
        IF t.model = model /\ t.modelId = modelId THEN 0 ELSE @[t]]]

\* Media.findByIdAndUpdate(id, { $push }): a findOneAndUpdate, so the
\* pre(/^find/) hook of the Media schema applies; no match is not an error
findByIdAndUpdatePush(med, id, t) ==
    IF id \in DOMAIN med /\ ~med[id].isDeleted
    THEN [med EXCEPT ![id] = Push(@, t)] ELSE med

findByIdAndUpdatePull(med, id, t) ==
    IF id \in DOMAIN med /\ ~med[id].isDeleted
    THEN [med EXCEPT ![id] = Pull(@, t)] ELSE med

\* Media.updateMany({ _id: { $in: ids } }, { $push }): no find hook
updateManyPush(med, ids, t) ==
    [j \in DOMAIN med |-> IF j \in ids THEN Push(med[j], t) ELSE med[j]]

updateManyPull(med, ids, t) ==
    [j \in DOMAIN med |-> IF j \in ids THEN Pull(med[j], t) ELSE med[j]]

updateManyPullItem(med, ids, model, modelId) ==
    [j \in DOMAIN med |-> IF j \in ids THEN PullItem(med[j], model, modelId)
                          ELSE med[j]]

\* pushHero recording the tuple under the gallery field
pushHero_wrongField(med, id, doc) ==
    IF doc.heroImage # NoRef
    THEN findByIdAndUpdatePush(med, doc.heroImage,
                               Usage(ModelOf(id), id, "gallery"))
    ELSE med

\* the usage pushes that create and restore make for a stored document
pushHero(med, id, doc) ==
    IF doc.heroImage # NoRef
    THEN findByIdAndUpdatePush(med, doc.heroImage,
                               Usage(ModelOf(id), id, "heroImage"))
    ELSE med

pushGallery(med, id, doc) ==
    IF Len(doc.gallery) > 0
    THEN updateManyPush(med, SeqToSet(doc.gallery),
                        Usage(ModelOf(id), id, "gallery"))
    ELSE med

pushVideo(med, id, doc) ==
    IF doc.video # NoRef
    THEN findByIdAndUpdatePush(med, doc.video, Usage(ModelOf(id), id, "video"))
    ELSE med

\* swapRef that pulls the old reference and forgets to push the new one
swapRef_noPush(med, id, field, oldRef, newRef) ==
    IF oldRef # NoRef /\ oldRef # newRef
    THEN findByIdAndUpdatePull(med, oldRef, Usage(ModelOf(id), id, field))
    ELSE med

\* swapRef that pushes the new reference whether or not it changed
swapRef_pushUnchanged(med, id, field, oldRef, newRef) ==
    LET t  == Usage(ModelOf(id), id, field)
        m1 == IF oldRef # NoRef /\ oldRef # newRef
              THEN findByIdAndUpdatePull(med, oldRef, t) ELSE med
    IN IF newRef # NoRef THEN findByIdAndUpdatePush(m1, newRef, t) ELSE m1

\* the usage changes that update makes for one single-reference field
swapRef(med, id, field, oldRef, newRef) ==
    LET t  == Usage(ModelOf(id), id, field)
        m1 == IF oldRef # NoRef /\ oldRef # newRef
              THEN findByIdAndUpdatePull(med, oldRef, t) ELSE med
    IN IF newRef # NoRef /\ oldRef # newRef
       THEN findByIdAndUpdatePush(m1, newRef, t) ELSE m1

\* swapGallery that pushes for the whole new gallery, not only the added ids
swapGallery_repush(med, id, oldGallery, newGallery) ==
    LET t             == Usage(ModelOf(id), id, "gallery")
        removedImages == SeqToSet(oldGallery) \ SeqToSet(newGallery)
        m1 == IF removedImages # {} THEN updateManyPull(med, removedImages, t)
              ELSE med
    IN IF newGallery # <<>> THEN updateManyPush(m1, SeqToSet(newGallery), t)
       ELSE m1

\* the usage changes that update makes for the gallery
swapGallery(med, id, oldGallery, newGallery) ==
    LET t             == Usage(ModelOf(id), id, "gallery")
        removedImages == SeqToSet(oldGallery) \ SeqToSet(newGallery)
        addedImages   == SeqToSet(newGallery) \ SeqToSet(oldGallery)
        m1 == IF removedImages # {} THEN updateManyPull(med, removedImages, t)
              ELSE med
    IN IF addedImages # {} THEN updateManyPush(m1, addedImages, t) ELSE m1

\* mediaIdsOf without the video
mediaIdsOf_noVideo(doc) ==
    ({doc.heroImage} \cup SeqToSet(doc.gallery)) \ {NoRef}

\* the ids deleteEvent / deleteBlog pull the item's tuples from
mediaIdsOf(doc) ==
    ({doc.heroImage, doc.video} \cup SeqToSet(doc.gallery)) \ {NoRef}

\* ------------------------------------------------------------- responses
Respond(op, code) ==
    resp' = [op |-> op, code |-> code,
             deleted |-> 0, total |-> 0, failed |-> {}, items |-> {}]

\* ------------------------------------------------------------------ state
\* requests in flight, for the runs in which requests interleave
Procs == {"p1", "p2"}

\* op, pc: the handler and the await it stands at; id, doc: the document it
\* works on; old: the values update kept from the loaded document; k: the
\* usage update it has reached; todo, total, deleted, failed: the loop of
\* deleteUnusedMedia
Idle == [op |-> "idle", pc |-> "idle", id |-> 0, doc |-> NewDoc,
         old |-> NewDoc, k |-> 0,
         todo |-> {}, total |-> 0, deleted |-> 0, failed |-> {}]

Init ==
    /\ content = <<>>
    /\ media = <<>>
    /\ files = {}
    /\ clock = 1
    /\ resp = [op |-> "none", code |-> "none",
               deleted |-> 0, total |-> 0, failed |-> {}, items |-> {}]
    /\ procs = [p \in Procs |-> Idle]
    /\ users = [refreshToken |-> NoToken, signed |-> 0]
    /\ cookies = [refreshToken |-> NoToken, beforeLogout |-> 0]

\* Date.now() moves on between two reads
Tick ==
    /\ clock < MaxClock
    /\ clock' = clock + 1
    /\ UNCHANGED <<content, media, files, resp, procs, users, cookies>>

\* ----------------------------------------------------- content handlers
\* Model.create(data) up to the insert: the new document after its hooks
newDocument(body, paths, now) ==
    preSave(NewDoc, Assign(NewDoc, body, paths), TRUE, body, now)

createEvent(body) ==
    /\ EventIds \ DOMAIN content # {}
    /\ LET id  == Min(EventIds \ DOMAIN content)
           doc == newDocument(body, EventPaths, clock)
       IN IF ~SchemaValid(id, doc)
          THEN /\ Respond("createEvent", "ValidationError")
               /\ UNCHANGED <<content, media>>
          ELSE IF ~SlugIndexAllows(content, id, doc.slug)
          THEN /\ Respond("createEvent", "E11000")
               /\ UNCHANGED <<content, media>>
          ELSE /\ content' = Put(content, id, doc)
               /\ media' = pushGallery(pushHero(media, id, doc), id, doc)
               /\ Respond("createEvent", "201")
    /\ UNCHANGED <<files, clock, procs, users, cookies>>

createBlog(body) ==
    /\ BlogIds \ DOMAIN content # {}
    /\ LET id  == Min(BlogIds \ DOMAIN content)
           doc == newDocument(body, BlogPaths, clock)
       IN IF "heroImage" \notin DOMAIN body \/ body.heroImage = NoRef
          THEN /\ Respond("createBlog", "400")
               /\ UNCHANGED <<content, media>>
          ELSE IF ~SchemaValid(id, doc)
          THEN /\ Respond("createBlog", "ValidationError")
               /\ UNCHANGED <<content, media>>
          ELSE IF ~SlugIndexAllows(content, id, doc.slug)
          THEN /\ Respond("createBlog", "E11000")
               /\ UNCHANGED <<content, media>>
          ELSE /\ content' = Put(content, id, doc)
               /\ media' = pushVideo(pushGallery(pushHero(media, id, doc),
                                                 id, doc), id, doc)
               /\ Respond("createBlog", "201")
    /\ UNCHANGED <<files, clock, procs, users, cookies>>

\* the document update saves: Object.assign, then the pre-save hook
updatedDocument(old, body, paths, now) ==
    preSave(old, Assign(old, body, paths), FALSE, body, now)

updateEvent(id, body) ==
    /\ id \in EventIds
    /\ IF ~findById(content, id, FALSE)
       THEN /\ Respond("updateEvent", "404")
            /\ UNCHANGED <<content, media>>
       ELSE LET old == content[id]
                new == updatedDocument(old, body, EventPaths, clock)
            IN IF ~SchemaValid(id, new)
               THEN /\ Respond("updateEvent", "ValidationError")
                    /\ UNCHANGED <<content, media>>
               ELSE IF ~SlugIndexAllows(content, id, new.slug)
               THEN /\ Respond("updateEvent", "E11000")
                    /\ UNCHANGED <<content, media>>
               ELSE /\ content' = Put(content, id, new)
                    /\ media' = swapGallery(
                                  swapRef(media, id, "heroImage",
                                          old.heroImage, new.heroImage),
                                  id, old.gallery, new.gallery)
                    /\ Respond("updateEvent", "200")
    /\ UNCHANGED <<files, clock, procs, users, cookies>>

updateBlog(id, body) ==
    /\ id \in BlogIds
    /\ IF ~findById(content, id, FALSE)
       THEN /\ Respond("updateBlog", "404")
            /\ UNCHANGED <<content, media>>
       ELSE LET old == content[id]
                new == updatedDocument(old, body, BlogPaths, clock)
            IN IF ~SchemaValid(id, new)
               THEN /\ Respond("updateBlog", "ValidationError")
                    /\ UNCHANGED <<content, media>>
               ELSE IF ~SlugIndexAllows(content, id, new.slug)
               THEN /\ Respond("updateBlog", "E11000")
                    /\ UNCHANGED <<content, media>>
               ELSE /\ content' = Put(content, id, new)
                    /\ media' = swapRef(
                                  swapGallery(
                                    swapRef(media, id, "heroImage",
                                            old.heroImage, new.heroImage),
                                    id, old.gallery, new.gallery),
                                  id, "video", old.video, new.video)
                    /\ Respond("updateBlog", "200")
    /\ UNCHANGED <<files, clock, procs, users, cookies>>

\* schema.methods.softDelete, as saved
softDelete(doc, now) ==
    preSave(doc, [doc EXCEPT !.isDeleted = TRUE, !.deletedAt = now],
            FALSE, <<>>, now)

\* a restore that leaves deletedAt as it is
restore_keepsDeletedAt(doc, now) ==
    preSave(doc, [doc EXCEPT !.isDeleted = FALSE], FALSE, <<>>, now)

\* schema.methods.restore, as saved
restore(doc, now) ==
    preSave(doc, [doc EXCEPT !.isDeleted = FALSE, !.deletedAt = NoDate],
            FALSE, <<>>, now)

\* what deleteEvent / deleteBlog leave in the two stores: the document is
\* soft-deleted, then every tuple of the item is pulled from the assets it
\* references
deleteResult(c, med, id, now) ==
    IF ~findById(c, id, FALSE)
    THEN [content |-> c, media |-> med, code |-> "404"]
    ELSE LET doc == softDelete(c[id], now)
         IN [content |-> Put(c, id, doc),
             media |-> IF mediaIdsOf(doc) # {}
                       THEN updateManyPullItem(med, mediaIdsOf(doc),
                                               ModelOf(id), id)
                       ELSE med,
             code |-> "200"]

\* restorePushes that treats a blog like an event
restorePushes_eventOnly(med, id, doc) ==
    pushGallery(pushHero(med, id, doc), id, doc)

\* the pushes of restoreEvent (heroImage, gallery) and of restoreBlog
\* (heroImage, gallery, video)
restorePushes(med, id, doc) ==
    IF ModelOf(id) = "Event"
    THEN pushGallery(pushHero(med, id, doc), id, doc)
    ELSE pushVideo(pushGallery(pushHero(med, id, doc), id, doc), id, doc)

\* a restore that skips the "is not deleted" test
restoreResult_noStateTest(c, med, id, now) ==
    IF ~findById(c, id, TRUE)
    THEN [content |-> c, media |-> med, code |-> "404"]
    ELSE LET doc == restore(c[id], now)
         IN [content |-> Put(c, id, doc),
             media |-> restorePushes(med, id, doc),
             code |-> "200"]

\* what restoreEvent / restoreBlog leave in the two stores
restoreResult(c, med, id, now) ==
    IF ~findById(c, id, TRUE)
    THEN [content |-> c, media |-> med, code |-> "404"]
    ELSE IF ~c[id].isDeleted
    THEN [content |-> c, media |-> med, code |-> "400"]
    ELSE LET doc == restore(c[id], now)
         IN [content |-> Put(c, id, doc),
             media |-> restorePushes(med, id, doc),
             code |-> "200"]

deleteEvent(id) ==
    /\ id \in EventIds
    /\ LET r == deleteResult(content, media, id, clock)
       IN content' = r.content /\ media' = r.media
          /\ Respond("deleteEvent", r.code)
    /\ UNCHANGED <<files, clock, procs, users, cookies>>

deleteBlog(id) ==
    /\ id \in BlogIds
    /\ LET r == deleteResult(content, media, id, clock)
       IN content' = r.content /\ media' = r.media
          /\ Respond("deleteBlog", r.code)
    /\ UNCHANGED <<files, clock, procs, users, cookies>>

restoreEvent(id) ==
    /\ id \in EventIds
    /\ LET r == restoreResult(content, media, id, clock)
       IN content' = r.content /\ media' = r.media
          /\ Respond("restoreEvent", r.code)
    /\ UNCHANGED <<files, clock, procs, users, cookies>>

restoreBlog(id) ==
    /\ id \in BlogIds
    /\ LET r == restoreResult(content, media, id, clock)
       IN content' = r.content /\ media' = r.media
          /\ Respond("restoreBlog", r.code)
    /\ UNCHANGED <<files, clock, procs, users, cookies>>

\* ------------------------------------------------------- media handlers
\* a new Media document
NewMedia == [usedIn |-> EmptyUsedIn, isDeleted |-> FALSE]

\* ids no document and no request in flight holds: what a newly generated
\* ObjectId is
FreshMediaIds ==
    {m \in MediaIds : /\ m \notin DOMAIN media
                      /\ m \notin files
                      /\ \A j \in DOMAIN content : m \notin mediaIdsOf(content[j])
                      /\ \A p \in Procs : /\ m # procs[p].id
                                           /\ m \notin procs[p].todo
                                           /\ m \notin mediaIdsOf(procs[p].doc)}

\* the n smallest elements of S
RECURSIVE Smallest(_, _)
Smallest(S, n) == IF n = 0 \/ S = {} THEN {}
                  ELSE {Min(S)} \cup Smallest(S \ {Min(S)}, n - 1)

\* uploadFiles for a request of n files that multer has stored; failAt = 0
\* when every Media.create succeeds, else the index of the one that throws
uploadFiles(n, failAt) ==
    /\ n >= 1
    /\ Cardinality(FreshMediaIds) >= n
    /\ failAt \in 0..n
    /\ LET ids     == Smallest(FreshMediaIds, n)
           created == IF failAt = 0 THEN ids ELSE Smallest(ids, failAt - 1)
       IN /\ media' = [m \in DOMAIN media \cup created |->
                          IF m \in created THEN NewMedia ELSE media[m]]
          /\ files' = IF failAt = 0 THEN files \cup ids ELSE files
          /\ Respond("uploadFiles", IF failAt = 0 THEN "201" ELSE "500")
    /\ UNCHANGED <<content, clock, procs, users, cookies>>

\* Media.findById(id)
findMediaById(med, id) == id \in DOMAIN med /\ ~med[id].isDeleted

\* the store without document id
Remove(med, ids) == [m \in DOMAIN med \ ids |-> med[m]]

\* deleteMedia; unlinkFails: fs.unlink reports an error other than ENOENT
deleteMedia(id, unlinkFails) ==
    /\ id \in MediaIds
    /\ IF ~findMediaById(media, id)
       THEN /\ Respond("deleteMedia", "404")
            /\ UNCHANGED <<media, files>>
       ELSE IF isInUse(media[id])
       THEN /\ Respond("deleteMedia", "400")
            /\ UNCHANGED <<media, files>>
       ELSE IF unlinkFails
       THEN /\ Respond("deleteMedia", "500")
            /\ UNCHANGED <<media, files>>
       ELSE /\ files' = files \ {id}
            /\ media' = Remove(media, {id})
            /\ Respond("deleteMedia", "200")
    /\ UNCHANGED <<content, clock, procs, users, cookies>>

\* Media.find({ $or: [{ usedIn: { $size: 0 } }, { usedIn: { $exists: false } }] })
findUnused(med) == {m \in DOMAIN med : ~med[m].isDeleted /\ ~isInUse(med[m])}

\* a bulk deletion whose loop ends at the first asset that fails
deleteUnusedMedia_stopAtFailure(failing) ==
    /\ LET unusedMedia == findUnused(media)
           bad         == unusedMedia \cap failing
           gone        == {m \in unusedMedia : \A f \in bad : m < f}
       IN /\ files' = files \ gone
          /\ media' = Remove(media, gone)
          /\ resp' = [op |-> "deleteUnusedMedia", code |-> "200",
                      deleted |-> Cardinality(gone),
                      total |-> Cardinality(unusedMedia),
                      failed |-> IF bad = {} THEN {} ELSE {Min(bad)},
                      items |-> {}]
    /\ UNCHANGED <<content, clock, procs, users, cookies>>

\* deleteUnusedMedia; failing: the ids whose fs.unlink reports an error
deleteUnusedMedia(failing) ==
    /\ LET unusedMedia == findUnused(media)
           gone        == unusedMedia \ failing
       IN /\ files' = files \ gone
          /\ media' = Remove(media, gone)
          /\ resp' = [op |-> "deleteUnusedMedia", code |-> "200",
                      deleted |-> Cardinality(gone),
                      total |-> Cardinality(unusedMedia),
                      failed |-> unusedMedia \cap failing,
                      items |-> {}]
    /\ UNCHANGED <<content, clock, procs, users, cookies>>

\* ------------------------------------------------------ request bodies
Refs == MediaIds \cup {NoRef}

\* the bodies of the requests that change references; one title, one status
TitleG == <<"G", "a">>

EventCreateBodies ==
    {[title |-> TitleG, status |-> "draft", heroImage |-> h, gallery |-> g] :
        h \in MediaIds, g \in Galleries}
    \cup {[title |-> TitleG, status |-> "draft", gallery |-> g] : g \in Galleries}

EventUpdateBodies ==
    {[heroImage |-> h] : h \in Refs}
    \cup {[gallery |-> g] : g \in Galleries}
    \cup {[heroImage |-> h, gallery |-> g] : h \in Refs, g \in Galleries}

BlogCreateBodies ==
    {[title |-> TitleG, status |-> "draft", heroImage |-> h, gallery |-> g,
      video |-> v] : h \in MediaIds, g \in Galleries, v \in MediaIds}
    \cup {[title |-> TitleG, status |-> "draft", heroImage |-> h] : h \in MediaIds}
    \cup {[title |-> TitleG, status |-> "draft"]}

BlogUpdateBodies ==
    {[heroImage |-> h] : h \in Refs}
    \cup {[gallery |-> g] : g \in Galleries}
    \cup {[video |-> v] : v \in Refs}
    \cup {[heroImage |-> h, video |-> v] : h \in MediaIds, v \in Refs}

\* ------------------------------------------- one request at a time
Next ==
    \/ \E n \in 1..NumMedia : uploadFiles(n, 0)
    \/ \E b \in EventCreateBodies : createEvent(b)
    \/ \E b \in BlogCreateBodies : createBlog(b)
    \/ \E id \in EventIds \cap DOMAIN content, b \in EventUpdateBodies :
          updateEvent(id, b)
    \/ \E id \in BlogIds \cap DOMAIN content, b \in BlogUpdateBodies :
          updateBlog(id, b)
    \/ \E id \in EventIds : deleteEvent(id)
    \/ \E id \in BlogIds : deleteBlog(id)
    \/ \E id \in EventIds : restoreEvent(id)
    \/ \E id \in BlogIds : restoreBlog(id)
    \/ \E id \in MediaIds, f \in BOOLEAN : deleteMedia(id, f)
    \/ \E failing \in SUBSET MediaIds : deleteUnusedMedia(failing)

Spec == Init /\ [][Next]_vars

\* ------------------------------------------------------- read handlers
\* a view-counting save that adds two
countView_twice(doc, now) ==
    preSave(doc, [doc EXCEPT !.views = @ + 2], FALSE, <<>>, now)

\* the document a view-counting fetch saves: views += 1, then save()
countView(doc, now) ==
    preSave(doc, [doc EXCEPT !.views = @ + 1], FALSE, <<>>, now)

\* getEvent / getBlog for a caller who is an admin or not
getItem(op, id, admin) ==
    /\ IF ~findById(content, id, FALSE)
       THEN /\ Respond(op, "404")
            /\ UNCHANGED content
       ELSE IF content[id].status # "published" /\ ~admin
       THEN /\ Respond(op, "403")
            /\ UNCHANGED content
       ELSE IF content[id].status = "published"
       THEN /\ content[id].views < MaxViews
            /\ content' = Put(content, id, countView(content[id], clock))
            /\ Respond(op, "200")
       ELSE /\ Respond(op, "200")
            /\ UNCHANGED content
    /\ UNCHANGED <<media, files, clock, procs, users, cookies>>

getEvent(id, admin) == id \in EventIds /\ getItem("getEvent", id, admin)

getBlog(id, admin) == id \in BlogIds /\ getItem("getBlog", id, admin)

\* Model.findOne({ slug, status: 'published' }) behind the pre(/^find/) hook
findPublishedBySlug(c, ids, slug) ==
    {id \in ids \cap DOMAIN c :
        ~c[id].isDeleted /\ c[id].slug = slug /\ c[id].status = "published"}

\* getEventBySlug / getBlogBySlug
getItemBySlug(op, ids, slug) ==
    /\ LET found == findPublishedBySlug(content, ids, slug)
       IN IF found = {}
          THEN /\ Respond(op, "404")
               /\ UNCHANGED content
          ELSE LET id == Min(found)
               IN /\ content[id].views < MaxViews
                  /\ content' = Put(content, id, countView(content[id], clock))
                  /\ Respond(op, "200")
    /\ UNCHANGED <<media, files, clock, procs, users, cookies>>

getEventBySlug(slug) == getItemBySlug("getEventBySlug", EventIds, slug)

getBlogBySlug(slug) == getItemBySlug("getBlogBySlug", BlogIds, slug)

\* ------------------------------------------------------------- listings
\* the values of the status query parameter (querySchema)
StatusFilters == Statuses \cup {"all"}

\* query.status built from the filter asked for, whoever asks
statusQuery_asAsked(admin, status) ==
    IF status = "all" THEN Statuses ELSE {status}

\* query.status as getEvents / getBlogs build it: an admin gets the filter
\* asked for, anyone else gets published
statusQuery(admin, status) ==
    IF admin THEN (IF status = "all" THEN Statuses ELSE {status})
    ELSE {"published"}

\* a find that returns soft-deleted documents as well
find_includeDeleted(c, ids, statuses) ==
    {id \in ids \cap DOMAIN c : c[id].status \in statuses}

\* Model.find(query) behind the pre(/^find/) hook; the page returned is the
\* first one, which holds every match while the matches are fewer than limit
find(c, ids, statuses) ==
    {id \in ids \cap DOMAIN c : ~c[id].isDeleted /\ c[id].status \in statuses}

\* Model.countDocuments(query): not a find, so the hook does not run
countDocuments(c, ids, statuses) ==
    Cardinality({id \in ids \cap DOMAIN c : c[id].status \in statuses})

\* getEvents / getBlogs
getItems(op, ids, admin, status) ==
    /\ status \in StatusFilters
    /\ resp' = [op |-> op, code |-> "200", deleted |-> 0,
                total |-> countDocuments(content, ids, statusQuery(admin, status)),
                failed |-> {},
                items |-> find(content, ids, statusQuery(admin, status))]
    /\ UNCHANGED <<content, media, files, clock, procs, users, cookies>>

getEvents(admin, status) == getItems("getEvents", EventIds, admin, status)

getBlogs(admin, status) == getItems("getBlogs", BlogIds, admin, status)

\* the slugs a reader can have learnt
KnownSlugs == {content[id].slug : id \in DOMAIN content}

\* ----------------------------------- titles and slugs, one request at a time
\* two titles with the same slugify image, and one with another
TitleG2 == <<"g", "a", "!">>

TitleH == <<" ", "G", "-", "g">>

Titles == {TitleG, TitleG2, TitleH}

FirstMedia == Min(MediaIds)

SlugEventCreateBodies == {[title |-> t, status |-> "draft"] : t \in Titles}

SlugBlogCreateBodies ==
    {[title |-> t, status |-> "draft", heroImage |-> FirstMedia] : t \in Titles}

TitleBodies == {[title |-> t] : t \in Titles}

SlugNext ==
    \/ Tick
    \/ uploadFiles(1, 0)
    \/ \E b \in SlugEventCreateBodies : createEvent(b)
    \/ \E b \in SlugBlogCreateBodies : createBlog(b)
    \/ \E id \in EventIds \cap DOMAIN content, b \in TitleBodies : updateEvent(id, b)
    \/ \E id \in BlogIds \cap DOMAIN content, b \in TitleBodies : updateBlog(id, b)
    \/ \E id \in EventIds : deleteEvent(id)
    \/ \E id \in BlogIds : deleteBlog(id)

SlugSpec == Init /\ [][SlugNext]_vars

\* ------------------------------ status and views, one request at a time
\* one item, an Event or a Blog, is created and then lives through status
\* changes, fetches, soft deletes and restores
StatusEventCreateBodies == {[title |-> TitleG, status |-> st] : st \in Statuses}

StatusBlogCreateBodies ==
    {[title |-> TitleG, status |-> st, heroImage |-> FirstMedia] : st \in Statuses}

StatusBodies ==
    {[status |-> st] : st \in Statuses} \cup {[gallery |-> <<>>]}

PublishNext ==
    \/ Tick
    \/ uploadFiles(1, 0)
    \/ content = <<>> /\ \E b \in StatusEventCreateBodies : createEvent(b)
    \/ content = <<>> /\ \E b \in StatusBlogCreateBodies : createBlog(b)
    \/ \E id \in EventIds \cap DOMAIN content, b \in StatusBodies : updateEvent(id, b)
    \/ \E id \in BlogIds \cap DOMAIN content, b \in StatusBodies : updateBlog(id, b)
    \/ \E id \in EventIds : deleteEvent(id)
    \/ \E id \in BlogIds : deleteBlog(id)
    \/ \E id \in EventIds : restoreEvent(id)
    \/ \E id \in BlogIds : restoreBlog(id)
    \/ \E id \in EventIds \cap DOMAIN content, a \in BOOLEAN : getEvent(id, a)
    \/ \E id \in BlogIds \cap DOMAIN content, a \in BOOLEAN : getBlog(id, a)
    \/ \E sl \in KnownSlugs : getEventBySlug(sl)
    \/ \E sl \in KnownSlugs : getBlogBySlug(sl)
    \/ \E a \in BOOLEAN, st \in StatusFilters : getEvents(a, st)
    \/ \E a \in BOOLEAN, st \in StatusFilters : getBlogs(a, st)

PublishSpec == Init /\ [][PublishNext]_vars

\* ============================================ requests that interleave
\* Each handler runs from one await to the next without interruption; between
\* two awaits the steps of another request may run.

\* the ObjectId of a new content document: one no stored document and no
\* request in flight holds
FreshItemIds(ids) ==
    {i \in ids : i \notin DOMAIN content /\ \A p \in Procs : procs[p].id # i}

Goto(p, pc) == procs' = [procs EXCEPT ![p].pc = pc]

Finish(p) == procs' = [procs EXCEPT ![p] = Idle]

At(p, op, pc) == procs[p].op = op /\ procs[p].pc = pc

\* Model.create(data) up to its insert: the document is built and validated
\* and the pre-save hook has read Date.now()
create_hook(p, op, ids, paths, body) ==
    /\ procs[p] = Idle
    /\ FreshItemIds(ids) # {}
    /\ LET id  == Min(FreshItemIds(ids))
           doc == newDocument(body, paths, clock)
       IN IF op = "createBlog"
             /\ ("heroImage" \notin DOMAIN body \/ body.heroImage = NoRef)
          THEN Respond(op, "400") /\ UNCHANGED procs
          ELSE IF ~SchemaValid(id, doc)
          THEN Respond(op, "ValidationError") /\ UNCHANGED procs
          ELSE /\ procs' = [procs EXCEPT ![p] =
                              [Idle EXCEPT !.op = op, !.pc = "insert",
                                           !.id = id, !.doc = doc]]
               /\ UNCHANGED resp
    /\ UNCHANGED <<content, media, files, clock, users, cookies>>

\* the insert of Model.create: the unique index on slug accepts the document
\* or the request ends with a duplicate-key error
create_insert(p, op) ==
    /\ At(p, op, "insert")
    /\ IF ~SlugIndexAllows(content, procs[p].id, procs[p].doc.slug)
       THEN /\ Respond(op, "E11000")
            /\ Finish(p)
            /\ UNCHANGED content
       ELSE /\ content' = Put(content, procs[p].id, procs[p].doc)
            /\ Goto(p, "pushHero")
            /\ UNCHANGED resp
    /\ UNCHANGED <<media, files, clock, users, cookies>>

\* one "if (item.<field>) await Media.<update>($push)" of a create handler;
\* last: the response follows
create_push(p, op, pc, pushed, next, last) ==
    /\ At(p, op, pc)
    /\ media' = pushed
    /\ IF last THEN Respond(op, "201") /\ Finish(p)
               ELSE Goto(p, next) /\ UNCHANGED resp
    /\ UNCHANGED <<content, files, clock, users, cookies>>

createEvent_hook(p, body) ==
    create_hook(p, "createEvent", EventIds, EventPaths, body)

createEvent_insert(p) == create_insert(p, "createEvent")

createEvent_pushHero(p) ==
    create_push(p, "createEvent", "pushHero",
                pushHero(media, procs[p].id, procs[p].doc), "pushGallery", FALSE)

createEvent_pushGallery(p) ==
    create_push(p, "createEvent", "pushGallery",
                pushGallery(media, procs[p].id, procs[p].doc), "done", TRUE)

createBlog_hook(p, body) ==
    create_hook(p, "createBlog", BlogIds, BlogPaths, body)

createBlog_insert(p) == create_insert(p, "createBlog")

createBlog_pushHero(p) ==
    create_push(p, "createBlog", "pushHero",
                pushHero(media, procs[p].id, procs[p].doc), "pushGallery", FALSE)

createBlog_pushGallery(p) ==
    create_push(p, "createBlog", "pushGallery",
                pushGallery(media, procs[p].id, procs[p].doc), "pushVideo", FALSE)

createBlog_pushVideo(p) ==
    create_push(p, "createBlog", "pushVideo",
                pushVideo(media, procs[p].id, procs[p].doc), "done", TRUE)

\* a deleteMedia that removes the file before it looks at usedIn
deleteMedia_find_unlinkFirst(p, id) ==
    /\ procs[p] = Idle
    /\ id \in MediaIds
    /\ IF ~findMediaById(media, id)
       THEN Respond("deleteMedia", "404") /\ UNCHANGED <<procs, files>>
       ELSE /\ files' = files \ {id}
            /\ IF isInUse(media[id])
               THEN Respond("deleteMedia", "400") /\ UNCHANGED procs
               ELSE /\ procs' = [procs EXCEPT ![p] =
                                   [Idle EXCEPT !.op = "deleteMedia",
                                                !.pc = "deleteOne", !.id = id]]
                    /\ UNCHANGED resp
    /\ UNCHANGED <<content, media, clock, users, cookies>>

\* deleteMedia up to its first await inside the try block: the document is
\* loaded and its isInUse is tested on the loaded copy
deleteMedia_find(p, id) ==
    /\ procs[p] = Idle
    /\ id \in MediaIds
    /\ IF ~findMediaById(media, id)
       THEN Respond("deleteMedia", "404") /\ UNCHANGED procs
       ELSE IF isInUse(media[id])
       THEN Respond("deleteMedia", "400") /\ UNCHANGED procs
       ELSE /\ procs' = [procs EXCEPT ![p] =
                           [Idle EXCEPT !.op = "deleteMedia", !.pc = "unlink",
                                        !.id = id]]
            /\ UNCHANGED resp
    /\ UNCHANGED <<content, media, files, clock, users, cookies>>

\* await deleteFile(media.path)
deleteMedia_unlink(p, unlinkFails) ==
    /\ At(p, "deleteMedia", "unlink")
    /\ IF unlinkFails
       THEN /\ Respond("deleteMedia", "500")
            /\ Finish(p)
            /\ UNCHANGED files
       ELSE /\ files' = files \ {procs[p].id}
            /\ Goto(p, "deleteOne")
            /\ UNCHANGED resp
    /\ UNCHANGED <<content, media, clock, users, cookies>>

\* await media.deleteOne(): the stored document of that _id goes, whatever
\* its fields hold by now
deleteMedia_deleteOne(p) ==
    /\ At(p, "deleteMedia", "deleteOne")
    /\ media' = Remove(media, {procs[p].id})
    /\ Respond("deleteMedia", "200")
    /\ Finish(p)
    /\ UNCHANGED <<content, files, clock, users, cookies>>

\* the loop of deleteUnusedMedia moves to its next document, or the handler
\* responds
loopNext(p, deleted, failed) ==
    IF procs[p].todo = {}
    THEN /\ resp' = [op |-> "deleteUnusedMedia", code |-> "200",
                     deleted |-> deleted, total |-> procs[p].total,
                     failed |-> failed, items |-> {}]
         /\ Finish(p)
    ELSE /\ procs' = [procs EXCEPT ![p].pc = "unlink",
                                   ![p].id = Min(procs[p].todo),
                                   ![p].todo = @ \ {Min(procs[p].todo)},
                                   ![p].deleted = deleted,
                                   ![p].failed = failed]
         /\ UNCHANGED resp

\* deleteUnusedMedia up to the first await of its loop
deleteUnusedMedia_find(p) ==
    /\ procs[p] = Idle
    /\ LET unusedMedia == findUnused(media)
       IN IF unusedMedia = {}
          THEN /\ resp' = [op |-> "deleteUnusedMedia", code |-> "200",
                           deleted |-> 0, total |-> 0, failed |-> {},
                           items |-> {}]
               /\ UNCHANGED procs
          ELSE /\ procs' = [procs EXCEPT ![p] =
                              [Idle EXCEPT !.op = "deleteUnusedMedia",
                                           !.pc = "unlink",
                                           !.id = Min(unusedMedia),
                                           !.todo = unusedMedia \ {Min(unusedMedia)},
                                           !.total = Cardinality(unusedMedia)]]
               /\ UNCHANGED resp
    /\ UNCHANGED <<content, media, files, clock, users, cookies>>

\* await deleteFile(media.path) inside the loop; a failure is collected and
\* the loop goes on
deleteUnusedMedia_unlink(p, unlinkFails) ==
    /\ At(p, "deleteUnusedMedia", "unlink")
    /\ IF unlinkFails
       THEN /\ loopNext(p, procs[p].deleted, procs[p].failed \cup {procs[p].id})
            /\ UNCHANGED files
       ELSE /\ files' = files \ {procs[p].id}
            /\ Goto(p, "deleteOne")
            /\ UNCHANGED resp
    /\ UNCHANGED <<content, media, clock, users, cookies>>

\* await media.deleteOne() inside the loop
deleteUnusedMedia_deleteOne(p) ==
    /\ At(p, "deleteUnusedMedia", "deleteOne")
    /\ media' = Remove(media, {procs[p].id})
    /\ loopNext(p, procs[p].deleted + 1, procs[p].failed)
    /\ UNCHANGED <<content, files, clock, users, cookies>>

\* ------------------------------ hard deletes racing with creations
RaceEventBodies ==
    {[title |-> TitleG, status |-> "draft", heroImage |-> h] : h \in MediaIds}
    \cup {[title |-> TitleG, status |-> "draft", gallery |-> <<FirstMedia>>]}

RaceNext ==
    \/ \E n \in 1..NumMedia : uploadFiles(n, 0)
    \/ \E p \in Procs, b \in RaceEventBodies : createEvent_hook(p, b)
    \/ \E p \in Procs : createEvent_insert(p)
    \/ \E p \in Procs : createEvent_pushHero(p)
    \/ \E p \in Procs : createEvent_pushGallery(p)
    \/ \E p \in Procs, id \in MediaIds : deleteMedia_find(p, id)
    \/ \E p \in Procs, f \in BOOLEAN : deleteMedia_unlink(p, f)
    \/ \E p \in Procs : deleteMedia_deleteOne(p)
    \/ \E p \in Procs : deleteUnusedMedia_find(p)
    \/ \E p \in Procs, f \in BOOLEAN : deleteUnusedMedia_unlink(p, f)
    \/ \E p \in Procs : deleteUnusedMedia_deleteOne(p)

RaceSpec == Init /\ [][RaceNext]_vars

\* ------------------------------ creations with one title, interleaved
SameTitleEventBodies == {[title |-> TitleG, status |-> "draft"]}

SameTitleBlogBodies ==
    {[title |-> TitleG, status |-> "draft", heroImage |-> FirstMedia]}

SlugRaceNext ==
    \/ Tick
    \/ uploadFiles(1, 0)
    \/ \E p \in Procs, b \in SameTitleEventBodies : createEvent_hook(p, b)
    \/ \E p \in Procs : createEvent_insert(p)
    \/ \E p \in Procs : createEvent_pushHero(p)
    \/ \E p \in Procs : createEvent_pushGallery(p)
    \/ \E p \in Procs, b \in SameTitleBlogBodies : createBlog_hook(p, b)
    \/ \E p \in Procs : createBlog_insert(p)
    \/ \E p \in Procs : createBlog_pushHero(p)
    \/ \E p \in Procs : createBlog_pushGallery(p)
    \/ \E p \in Procs : createBlog_pushVideo(p)

SlugRaceSpec == Init /\ [][SlugRaceNext]_vars

\* ------------------------------ fetches that count views, interleaved
\* getEvent / getBlog up to "await item.save()": the document is loaded and
\* the caller's right to see it is tested
getItem_find(p, op, id, admin) ==
    /\ procs[p] = Idle
    /\ IF ~findById(content, id, FALSE)
       THEN Respond(op, "404") /\ UNCHANGED procs
       ELSE IF content[id].status # "published" /\ ~admin
       THEN Respond(op, "403") /\ UNCHANGED procs
       ELSE IF content[id].status = "published"
       THEN /\ content[id].views < MaxViews
            /\ procs' = [procs EXCEPT ![p] =
                           [Idle EXCEPT !.op = op, !.pc = "saveViews",
                                        !.id = id, !.doc = content[id]]]
            /\ UNCHANGED resp
       ELSE Respond(op, "200") /\ UNCHANGED procs
    /\ UNCHANGED <<content, media, files, clock, users, cookies>>

\* getEventBySlug / getBlogBySlug up to "await item.save()"
getItemBySlug_find(p, op, ids, slug) ==
    /\ procs[p] = Idle
    /\ LET found == findPublishedBySlug(content, ids, slug)
       IN IF found = {}
          THEN Respond(op, "404") /\ UNCHANGED procs
          ELSE /\ content[Min(found)].views < MaxViews
               /\ procs' = [procs EXCEPT ![p] =
                              [Idle EXCEPT !.op = op, !.pc = "saveViews",
                                           !.id = Min(found),
                                           !.doc = content[Min(found)]]]
               /\ UNCHANGED resp
    /\ UNCHANGED <<content, media, files, clock, users, cookies>>

\* "item.views += 1; await item.save()": save() writes the modified path,
\* views, with the value computed from the loaded copy
getItem_save(p, op) ==
    /\ At(p, op, "saveViews")
    /\ content' = [content EXCEPT ![procs[p].id].views =
                      countView(procs[p].doc, clock).views]
    /\ Respond(op, "200")
    /\ Finish(p)
    /\ UNCHANGED <<media, files, clock, users, cookies>>

getEvent_find(p, id, admin) ==
    id \in EventIds /\ getItem_find(p, "getEvent", id, admin)

getEvent_save(p) == getItem_save(p, "getEvent")

getBlog_find(p, id, admin) ==
    id \in BlogIds /\ getItem_find(p, "getBlog", id, admin)

getBlog_save(p) == getItem_save(p, "getBlog")

getEventBySlug_find(p, slug) ==
    getItemBySlug_find(p, "getEventBySlug", EventIds, slug)

getEventBySlug_save(p) == getItem_save(p, "getEventBySlug")

ViewRaceNext ==
    \/ uploadFiles(1, 0)
    \/ \E b \in StatusEventCreateBodies : createEvent(b)
    \/ \E b \in StatusBlogCreateBodies : createBlog(b)
    \/ \E p \in Procs, id \in EventIds \cap DOMAIN content, a \in BOOLEAN :
          getEvent_find(p, id, a)
    \/ \E p \in Procs : getEvent_save(p)
    \/ \E p \in Procs, id \in BlogIds \cap DOMAIN content, a \in BOOLEAN :
          getBlog_find(p, id, a)
    \/ \E p \in Procs : getBlog_save(p)
    \/ \E p \in Procs, sl \in KnownSlugs : getEventBySlug_find(p, sl)
    \/ \E p \in Procs : getEventBySlug_save(p)

ViewRaceSpec == Init /\ [][ViewRaceNext]_vars

\* ============================================ usage updates that reject
\* one awaited usage update of a handler: awaited is the handler's "if" around
\* it, call and op name the Media update, ids its targets, t its tuple
UsageStep(awaited, call, op, ids, t) ==
    [awaited |-> awaited, call |-> call, op |-> op, ids |-> ids, t |-> t]

\* the stored usedIn after one usage update that resolves
applyStep(med, s) ==
    IF ~s.awaited THEN med
    ELSE IF s.call = "findByIdAndUpdate"
    THEN (IF s.op = "$push"
          THEN findByIdAndUpdatePush(med, Min(s.ids), s.t)
          ELSE findByIdAndUpdatePull(med, Min(s.ids), s.t))
    ELSE IF s.op = "$push" THEN updateManyPush(med, s.ids, s.t)
    ELSE IF s.op = "$pull" THEN updateManyPull(med, s.ids, s.t)
    ELSE updateManyPullItem(med, s.ids, s.t.model, s.t.modelId)

\* the first n usage updates of a handler, in order
RECURSIVE applySteps(_, _, _)
applySteps(med, steps, n) ==
    IF n = 0 THEN med
    ELSE applyStep(applySteps(med, steps, n - 1), steps[n])

\* the usage updates of updateEvent after event.save()
updateEventSteps(id, old, new) ==
    LET removedImages == SeqToSet(old.gallery) \ SeqToSet(new.gallery)
        addedImages   == SeqToSet(new.gallery) \ SeqToSet(old.gallery)
    IN << UsageStep(old.heroImage # NoRef /\ old.heroImage # new.heroImage,
                    "findByIdAndUpdate", "$pull", {old.heroImage},
                    Usage("Event", id, "heroImage")),
          UsageStep(new.heroImage # NoRef /\ old.heroImage # new.heroImage,
                    "findByIdAndUpdate", "$push", {new.heroImage},
                    Usage("Event", id, "heroImage")),
          UsageStep(removedImages # {}, "updateMany", "$pull", removedImages,
                    Usage("Event", id, "gallery")),
          UsageStep(addedImages # {}, "updateMany", "$push", addedImages,
                    Usage("Event", id, "gallery")) >>

\* the usage update of deleteEvent after event.softDelete()
deleteEventSteps(id, doc) ==
    << UsageStep(mediaIdsOf(doc) # {}, "updateMany", "$pullItem",
                 mediaIdsOf(doc), Usage("Event", id, "heroImage")) >>

\* the usage updates of restoreEvent after event.restore()
restoreEventSteps(id, doc) ==
    << UsageStep(doc.heroImage # NoRef, "findByIdAndUpdate", "$push",
                 {doc.heroImage}, Usage("Event", id, "heroImage")),
       UsageStep(Len(doc.gallery) > 0, "updateMany", "$push",
                 SeqToSet(doc.gallery), Usage("Event", id, "gallery")) >>

\* a handler that has saved doc and whose k-th usage update rejects: the
\* updates before it are applied, the await throws, and asyncHandler hands the
\* error on; the handler's own response is never sent. Failures stop once an
\* asset carries some tuple MaxTuples times
failAtStep(op, id, doc, steps, k) ==
    /\ \A m \in DOMAIN media, t \in UsageTuples : media[m].usedIn[t] < MaxTuples
    /\ k \in 1..Len(steps)
    /\ steps[k].awaited
    /\ content' = Put(content, id, doc)
    /\ media' = applySteps(media, steps, k - 1)
    /\ Respond(op, "StoreError")
    /\ UNCHANGED <<files, clock, procs, users, cookies>>

\* updateEvent whose k-th usage update rejects
updateEventFailing(id, body, k) ==
    /\ id \in EventIds
    /\ findById(content, id, FALSE)
    /\ LET old == content[id]
           new == updatedDocument(old, body, EventPaths, clock)
       IN /\ SchemaValid(id, new)
          /\ SlugIndexAllows(content, id, new.slug)
          /\ failAtStep("updateEvent", id, new, updateEventSteps(id, old, new), k)

\* deleteEvent whose usage update rejects
deleteEventFailing(id) ==
    /\ id \in EventIds
    /\ findById(content, id, FALSE)
    /\ LET doc == softDelete(content[id], clock)
       IN failAtStep("deleteEvent", id, doc, deleteEventSteps(id, doc), 1)

\* restoreEvent whose k-th usage update rejects
restoreEventFailing(id, k) ==
    /\ id \in EventIds
    /\ findById(content, id, TRUE)
    /\ content[id].isDeleted
    /\ LET doc == restore(content[id], clock)
       IN failAtStep("restoreEvent", id, doc, restoreEventSteps(id, doc), k)

FailNext ==
    \/ \E n \in 1..NumMedia : uploadFiles(n, 0)
    \/ \E b \in EventCreateBodies : createEvent(b)
    \/ \E id \in EventIds \cap DOMAIN content, b \in EventUpdateBodies :
          updateEvent(id, b)
    \/ \E id \in EventIds : deleteEvent(id)
    \/ \E id \in EventIds : restoreEvent(id)
    \/ \E id \in EventIds \cap DOMAIN content, b \in EventUpdateBodies, k \in 1..4 :
          updateEventFailing(id, b, k)
    \/ \E id \in EventIds : deleteEventFailing(id)
    \/ \E id \in EventIds, k \in 1..2 : restoreEventFailing(id, k)

FailSpec == Init /\ [][FailNext]_vars

\* ------------------------------ updates of one event, interleaved
\* updateEvent up to "await event.save()": the document is loaded, the old
\* references are kept, the body is assigned and the pre-save hook has run.
\* New updates stop once an asset carries some tuple MaxTuples times
updateEvent_find(p, id, body) ==
    /\ procs[p] = Idle
    /\ id \in EventIds
    /\ \A m \in DOMAIN media, t \in UsageTuples : media[m].usedIn[t] < MaxTuples
    /\ IF ~findById(content, id, FALSE)
       THEN Respond("updateEvent", "404") /\ UNCHANGED procs
       ELSE LET new == updatedDocument(content[id], body, EventPaths, clock)
            IN IF ~SchemaValid(id, new)
               THEN Respond("updateEvent", "ValidationError") /\ UNCHANGED procs
               ELSE /\ procs' = [procs EXCEPT ![p] =
                                   [Idle EXCEPT !.op = "updateEvent",
                                                !.pc = "save", !.id = id,
                                                !.old = content[id],
                                                !.doc = new]]
                    /\ UNCHANGED resp
    /\ UNCHANGED <<content, media, files, clock, users, cookies>>

\* what save() of a loaded document writes: the paths it modified, over
\* whatever the store holds by now
savedOver(stored, old, new) ==
    [f \in DOMAIN stored |-> IF new[f] # old[f] THEN new[f] ELSE stored[f]]

\* the first usage update at or after position k that the handler awaits; 0
\* when none is left
nextAwaited(steps, k) ==
    LET left == {j \in k..Len(steps) : steps[j].awaited}
    IN IF left = {} THEN 0 ELSE Min(left)

\* the handler moves to its next awaited usage update, or to the populate
\* before its response
toUsage(p, steps, k) ==
    procs' = [procs EXCEPT ![p].pc = IF nextAwaited(steps, k) = 0
                                     THEN "populate" ELSE "usage",
                           ![p].k = nextAwaited(steps, k)]

\* the write of event.save(); the bodies of these runs change no array path,
\* so the write carries no condition on the document's version
updateEvent_save(p) ==
    /\ At(p, "updateEvent", "save")
    /\ LET id  == procs[p].id
           doc == savedOver(content[id], procs[p].old, procs[p].doc)
       IN IF ~SlugIndexAllows(content, id, doc.slug)
          THEN /\ Respond("updateEvent", "E11000")
               /\ Finish(p)
               /\ UNCHANGED content
          ELSE /\ content' = Put(content, id, doc)
               /\ toUsage(p, updateEventSteps(id, procs[p].old, procs[p].doc), 1)
               /\ UNCHANGED resp
    /\ UNCHANGED <<media, files, clock, users, cookies>>

\* one awaited usage update of updateEvent, computed from the old references
\* the handler kept and the document it saved
updateEvent_usage(p) ==
    /\ At(p, "updateEvent", "usage")
    /\ LET steps == updateEventSteps(procs[p].id, procs[p].old, procs[p].doc)
       IN /\ media' = applyStep(media, steps[procs[p].k])
          /\ toUsage(p, steps, procs[p].k + 1)
    /\ UNCHANGED <<content, files, clock, resp, users, cookies>>

\* "await event.populate(...)" and the response
updateEvent_populate(p) ==
    /\ At(p, "updateEvent", "populate")
    /\ Respond("updateEvent", "200")
    /\ Finish(p)
    /\ UNCHANGED <<content, media, files, clock, users, cookies>>

HeroCreateBodies ==
    {[title |-> TitleG, status |-> "draft", heroImage |-> h] : h \in MediaIds}
    \cup {[title |-> TitleG, status |-> "draft"]}

HeroBodies == {[heroImage |-> h] : h \in Refs}

UpdateRaceNext ==
    \/ \E n \in 1..NumMedia : uploadFiles(n, 0)
    \/ \E b \in HeroCreateBodies : createEvent(b)
    \/ \E p \in Procs, id \in EventIds \cap DOMAIN content, b \in HeroBodies :
          updateEvent_find(p, id, b)
    \/ \E p \in Procs : updateEvent_save(p)
    \/ \E p \in Procs : updateEvent_usage(p)
    \/ \E p \in Procs : updateEvent_populate(p)

UpdateRaceSpec == Init /\ [][UpdateRaceNext]_vars

\* ------------------------------ deletions and creations, interleaved
\* deleteEvent / deleteBlog up to the first await after the lookup: the
\* document is loaded through the find hook
deleteItem_find(p, op, ids, id) ==
    /\ procs[p] = Idle
    /\ id \in ids
    /\ IF ~findById(content, id, FALSE)
       THEN Respond(op, "404") /\ UNCHANGED procs
       ELSE /\ procs' = [procs EXCEPT ![p] =
                           [Idle EXCEPT !.op = op, !.pc = "softDelete",
                                        !.id = id, !.doc = content[id]]]
            /\ UNCHANGED resp
    /\ UNCHANGED <<content, media, files, clock, users, cookies>>

\* "await item.softDelete()": the save writes isDeleted and deletedAt over
\* the stored document; the handler then reads the references of its loaded
\* copy and either awaits the $pull or answers
deleteItem_softDelete(p, op) ==
    /\ At(p, op, "softDelete")
    /\ LET id  == procs[p].id
           doc == softDelete(procs[p].doc, clock)
       IN /\ content' = Put(content, id,
                            savedOver(content[id], procs[p].doc, doc))
          /\ IF mediaIdsOf(doc) # {}
             THEN /\ procs' = [procs EXCEPT ![p].pc = "pull", ![p].doc = doc]
                  /\ UNCHANGED resp
             ELSE Respond(op, "200") /\ Finish(p)
    /\ UNCHANGED <<media, files, clock, users, cookies>>

\* "await Media.updateMany({_id: {$in: mediaIds}}, {$pull: ...})" and the
\* response
deleteItem_pull(p, op) ==
    /\ At(p, op, "pull")
    /\ media' = updateManyPullItem(media, mediaIdsOf(procs[p].doc),
                                   ModelOf(procs[p].id), procs[p].id)
    /\ Respond(op, "200")
    /\ Finish(p)
    /\ UNCHANGED <<content, files, clock, users, cookies>>

deleteEvent_find(p, id) == deleteItem_find(p, "deleteEvent", EventIds, id)

deleteEvent_softDelete(p) == deleteItem_softDelete(p, "deleteEvent")

deleteEvent_pull(p) == deleteItem_pull(p, "deleteEvent")

deleteBlog_find(p, id) == deleteItem_find(p, "deleteBlog", BlogIds, id)

deleteBlog_softDelete(p) == deleteItem_softDelete(p, "deleteBlog")

deleteBlog_pull(p) == deleteItem_pull(p, "deleteBlog")

\* no request in flight works on item id
Untouched(id) == \A p \in Procs : procs[p].id # id

\* every item of these runs references the one uploaded asset
ShareEventBodies ==
    {[title |-> TitleG, status |-> "draft", heroImage |-> FirstMedia],
     [title |-> TitleH, status |-> "draft", heroImage |-> FirstMedia,
      gallery |-> <<FirstMedia>>]}

ShareBlogBodies ==
    {[title |-> TitleG, status |-> "draft", heroImage |-> FirstMedia],
     [title |-> TitleG, status |-> "draft", heroImage |-> FirstMedia,
      video |-> FirstMedia]}

\* requests on different items between each other's awaits: a deletion
\* starts only on an item no other request is working on
ShareNext ==
    \/ uploadFiles(1, 0)
    \/ \E p \in Procs, b \in ShareEventBodies : createEvent_hook(p, b)
    \/ \E p \in Procs : createEvent_insert(p)
    \/ \E p \in Procs : createEvent_pushHero(p)
    \/ \E p \in Procs : createEvent_pushGallery(p)
    \/ \E p \in Procs, b \in ShareBlogBodies : createBlog_hook(p, b)
    \/ \E p \in Procs : createBlog_insert(p)
    \/ \E p \in Procs : createBlog_pushHero(p)
    \/ \E p \in Procs : createBlog_pushGallery(p)
    \/ \E p \in Procs : createBlog_pushVideo(p)
    \/ \E p \in Procs, id \in EventIds \cap DOMAIN content :
          Untouched(id) /\ deleteEvent_find(p, id)
    \/ \E p \in Procs : deleteEvent_softDelete(p)
    \/ \E p \in Procs : deleteEvent_pull(p)
    \/ \E p \in Procs, id \in BlogIds \cap DOMAIN content :
          Untouched(id) /\ deleteBlog_find(p, id)
    \/ \E p \in Procs : deleteBlog_softDelete(p)
    \/ \E p \in Procs : deleteBlog_pull(p)

ShareSpec == Init /\ [][ShareNext]_vars

\* ------------------------------------- the usage methods of a Media document
\* schema.methods.addUsage on a loaded document, a push that always happens
addUsage_noExistsTest(m, model, modelId, field) ==
    Push(m, Usage(model, modelId, field))

\* schema.methods.addUsage on a loaded document: the tuple is pushed unless
\* some element of usedIn equals it
addUsage(m, model, modelId, field) ==
    LET usage  == Usage(model, modelId, field)
        exists == m.usedIn[usage] > 0
    IN IF ~exists THEN Push(m, usage) ELSE m

\* schema.methods.removeUsage on a loaded document: usedIn becomes its
\* elements that differ from the tuple
removeUsage(m, model, modelId, field) ==
    [m EXCEPT !.usedIn =
        [u \in UsageTuples |->
            IF u = Usage(model, modelId, field) THEN 0 ELSE m.usedIn[u]]]

\* media.addUsage(...) on the stored document id, and the save it returns
callAddUsage(id, t) ==
    /\ id \in DOMAIN media
    /\ media' = [media EXCEPT ![id] = addUsage(@, t.model, t.modelId, t.field)]
    /\ Respond("addUsage", "ok")
    /\ UNCHANGED <<content, files, clock, procs, users, cookies>>

\* media.removeUsage(...) on the stored document id, and the save it returns
callRemoveUsage(id, t) ==
    /\ id \in DOMAIN media
    /\ media' = [media EXCEPT ![id] = removeUsage(@, t.model, t.modelId, t.field)]
    /\ Respond("removeUsage", "ok")
    /\ UNCHANGED <<content, files, clock, procs, users, cookies>>

\* the tuples of events
EventTuples == {t \in UsageTuples : t.model = "Event"}

\* the methods called with any event tuple on any stored asset, next to
\* creations that $push
MethodNext ==
    \/ \E n \in 1..NumMedia : uploadFiles(n, 0)
    \/ \E b \in HeroCreateBodies : createEvent(b)
    \/ \E id \in MediaIds, t \in EventTuples : callAddUsage(id, t)
    \/ \E id \in MediaIds, t \in EventTuples : callRemoveUsage(id, t)

MethodSpec == Init /\ [][MethodNext]_vars

\* ------------------------------ titles, status and views of one item
\* the item of the runs above, with updates that also send a title
FrameNext ==
    \/ PublishNext
    \/ \E id \in EventIds \cap DOMAIN content, b \in TitleBodies : updateEvent(id, b)
    \/ \E id \in BlogIds \cap DOMAIN content, b \in TitleBodies : updateBlog(id, b)

FrameSpec == Init /\ [][FrameNext]_vars

\* ------------------------------------------------ the listing of assets
\* JavaScript values of a query parameter: a string or a boolean
JsString(s) == [type |-> "string", value |-> s]

JsBoolean(b) == [type |-> "boolean", value |-> IF b THEN "true" ELSE "false"]

\* a === b
StrictEquals(a, b) == a.type = b.type /\ a.value = b.value

\* the unused parameter as the query string carries it; "" when it is absent
RawUnused == {"", "true", "false", "yes"}

\* querySchema.validate on the unused parameter: Joi.boolean().default(false)
\* converts the strings true and false and rejects any other
querySchema(raw) ==
    CASE raw = ""      -> [error |-> FALSE, unused |-> JsBoolean(FALSE)]
      [] raw = "true"  -> [error |-> FALSE, unused |-> JsBoolean(TRUE)]
      [] raw = "false" -> [error |-> FALSE, unused |-> JsBoolean(FALSE)]
      [] OTHER         -> [error |-> TRUE, unused |-> JsString(raw)]

\* Media.find(query) of getMedia: the find hook hides soft-deleted assets,
\* and the $or on usedIn is in the query when the handler added it
findMedia(med, unusedOnly) ==
    {m \in DOMAIN med : ~med[m].isDeleted /\ (unusedOnly => ~isInUse(med[m]))}

\* getMedia on the query it is handed; one page holds every asset
getMedia(query) ==
    /\ LET unusedOnly == StrictEquals(query.unused, JsString("true"))
           found      == findMedia(media, unusedOnly)
       IN resp' = [op |-> "getMedia", code |-> "200", deleted |-> 0,
                   total |-> Cardinality(found), failed |-> {},
                   items |-> found]
    /\ UNCHANGED <<content, media, files, clock, procs, users, cookies>>

\* GET /media: validateQuery(querySchema) answers 400 or replaces req.query
\* by the validated value and hands on to getMedia
getMediaRoute(raw) ==
    LET v == querySchema(raw)
    IN IF v.error
       THEN /\ Respond("getMedia", "400")
            /\ UNCHANGED <<content, media, files, clock, procs, users, cookies>>
       ELSE getMedia([unused |-> v.unused])

MediaListNext ==
    \/ \E n \in 1..NumMedia : uploadFiles(n, 0)
    \/ \E b \in HeroCreateBodies : createEvent(b)
    \/ \E id \in EventIds \cap DOMAIN content, b \in HeroBodies : updateEvent(id, b)
    \/ \E id \in EventIds : deleteEvent(id)
    \/ \E raw \in RawUnused : getMediaRoute(raw)

MediaListSpec == Init /\ [][MediaListNext]_vars

\* ------------------------------------------- routes of the admin handlers
\* who sends a request: no valid token, a user who is not admin, an admin
Callers == {"anonymous", "editor", "admin"}

\* a request value no schema accepts: a status outside the enum, a
\* heroImage that is not a 24-digit hex string
BadStatus == "bogus"

BadRef == 0 - 1

\* request bodies as sent, acceptable or not
RawCreateBodies ==
    {[title |-> TitleG, status |-> "draft", heroImage |-> FirstMedia],
     [title |-> TitleG, heroImage |-> FirstMedia],
     [status |-> "draft", heroImage |-> FirstMedia],
     [title |-> <<>>, status |-> "draft", heroImage |-> FirstMedia],
     [title |-> TitleG, status |-> BadStatus, heroImage |-> FirstMedia],
     [title |-> TitleG, status |-> "draft", heroImage |-> BadRef]}

RawUpdateBodies ==
    {[heroImage |-> h] : h \in Refs \cup {BadRef}}
    \cup {[status |-> st] : st \in {"published", BadStatus}}
    \cup {[title |-> <<>>, heroImage |-> NoRef], <<>>}

\* what both Joi schemas ask of the paths of the model
pathsAccepted(body) ==
    /\ "title" \in DOMAIN body => body.title # <<>>
    /\ "status" \in DOMAIN body => body.status \in Statuses
    /\ "gallery" \in DOMAIN body => SeqToSet(body.gallery) \subseteq MediaIds
    /\ "video" \in DOMAIN body => body.video \in MediaIds

\* createSchema.validate(req.body): title is required, heroImage is an id
createSchemaAccepts(body) ==
    /\ "title" \in DOMAIN body
    /\ pathsAccepted(body)
    /\ "heroImage" \in DOMAIN body => body.heroImage \in MediaIds

\* updateSchema.validate(req.body): at least one key, heroImage is an id or
\* null
updateSchemaAccepts(body) ==
    /\ DOMAIN body # {}
    /\ pathsAccepted(body)
    /\ "heroImage" \in DOMAIN body => body.heroImage \in MediaIds \cup {NoRef}

\* a middleware answers and does not call next()
Reject(op, code) ==
    /\ Respond(op, code)
    /\ UNCHANGED <<content, media, files, clock, procs, users, cookies>>

\* a route that hands every request to its handler, whoever sends it
route_noAuthorize(caller, accepted, op, handler) ==
    IF caller = "anonymous" THEN Reject(op, "401")
    ELSE IF ~accepted THEN Reject(op, "400")
    ELSE handler

\* router.use(authenticate, authorize('admin')), then validateRequest(schema)
\* where the route has one, then the handler
route(caller, accepted, op, handler) ==
    IF caller = "anonymous" THEN Reject(op, "401")
    ELSE IF caller # "admin" THEN Reject(op, "403")
    ELSE IF ~accepted THEN Reject(op, "400")
    ELSE handler

route_createEvent(caller, body) ==
    route(caller, createSchemaAccepts(body), "createEvent", createEvent(body))

route_updateEvent(caller, id, body) ==
    route(caller, updateSchemaAccepts(body), "updateEvent", updateEvent(id, body))

route_deleteEvent(caller, id) ==
    route(caller, TRUE, "deleteEvent", deleteEvent(id))

route_restoreEvent(caller, id) ==
    route(caller, TRUE, "restoreEvent", restoreEvent(id))

route_createBlog(caller, body) ==
    route(caller, createSchemaAccepts(body), "createBlog", createBlog(body))

route_updateBlog(caller, id, body) ==
    route(caller, updateSchemaAccepts(body), "updateBlog", updateBlog(id, body))

route_deleteBlog(caller, id) ==
    route(caller, TRUE, "deleteBlog", deleteBlog(id))

route_restoreBlog(caller, id) ==
    route(caller, TRUE, "restoreBlog", restoreBlog(id))

RouteNext ==
    \/ uploadFiles(1, 0)
    \/ \E c \in Callers, b \in RawCreateBodies : route_createEvent(c, b)
    \/ \E c \in Callers, id \in EventIds, b \in RawUpdateBodies :
          route_updateEvent(c, id, b)
    \/ \E c \in Callers, id \in EventIds : route_deleteEvent(c, id)
    \/ \E c \in Callers, id \in EventIds : route_restoreEvent(c, id)
    \/ \E c \in Callers, b \in RawCreateBodies : route_createBlog(c, b)
    \/ \E c \in Callers, id \in BlogIds, b \in RawUpdateBodies :
          route_updateBlog(c, id, b)
    \/ \E c \in Callers, id \in BlogIds : route_deleteBlog(c, id)
    \/ \E c \in Callers, id \in BlogIds : route_restoreBlog(c, id)

RouteSpec == Init /\ [][RouteNext]_vars

\* ------------------------------ update and delete of one event, interleaved
UpdateDeleteNext ==
    \/ \E n \in 1..NumMedia : uploadFiles(n, 0)
    \/ \E b \in HeroCreateBodies : createEvent(b)
    \/ \E p \in Procs, id \in EventIds \cap DOMAIN content, b \in HeroBodies :
          updateEvent_find(p, id, b)
    \/ \E p \in Procs : updateEvent_save(p)
    \/ \E p \in Procs : updateEvent_usage(p)
    \/ \E p \in Procs : updateEvent_populate(p)
    \/ \E p \in Procs, id \in EventIds \cap DOMAIN content : deleteEvent_find(p, id)
    \/ \E p \in Procs : deleteEvent_softDelete(p)
    \/ \E p \in Procs : deleteEvent_pull(p)

UpdateDeleteSpec == Init /\ [][UpdateDeleteNext]_vars

\* ------------------------------ restores of one event, interleaved
\* restoreEvent up to "await event.restore()": the document is loaded with
\* includeDeleted and must be soft-deleted
restoreEvent_find(p, id) ==
    /\ procs[p] = Idle
    /\ id \in EventIds
    /\ IF ~findById(content, id, TRUE)
       THEN Respond("restoreEvent", "404") /\ UNCHANGED procs
       ELSE IF ~content[id].isDeleted
       THEN Respond("restoreEvent", "400") /\ UNCHANGED procs
       ELSE /\ procs' = [procs EXCEPT ![p] =
                           [Idle EXCEPT !.op = "restoreEvent", !.pc = "restore",
                                        !.id = id, !.doc = content[id]]]
            /\ UNCHANGED resp
    /\ UNCHANGED <<content, media, files, clock, users, cookies>>

\* "await event.restore()": the save writes isDeleted and deletedAt over the
\* stored document; the handler goes on to the pushes of its loaded copy
restoreEvent_restore(p) ==
    /\ At(p, "restoreEvent", "restore")
    /\ LET id  == procs[p].id
           doc == restore(procs[p].doc, clock)
       IN /\ content' = Put(content, id,
                            savedOver(content[id], procs[p].doc, doc))
          /\ procs' = [procs EXCEPT
                ![p].doc = doc,
                ![p].pc = IF nextAwaited(restoreEventSteps(id, doc), 1) = 0
                          THEN "populate" ELSE "usage",
                ![p].k = nextAwaited(restoreEventSteps(id, doc), 1)]
    /\ UNCHANGED <<media, files, clock, resp, users, cookies>>

\* one awaited $push of restoreEvent
restoreEvent_usage(p) ==
    /\ At(p, "restoreEvent", "usage")
    /\ LET steps == restoreEventSteps(procs[p].id, procs[p].doc)
       IN /\ media' = applyStep(media, steps[procs[p].k])
          /\ toUsage(p, steps, procs[p].k + 1)
    /\ UNCHANGED <<content, files, clock, resp, users, cookies>>

\* "await event.populate(...)" and the response
restoreEvent_populate(p) ==
    /\ At(p, "restoreEvent", "populate")
    /\ Respond("restoreEvent", "200")
    /\ Finish(p)
    /\ UNCHANGED <<content, media, files, clock, users, cookies>>

RestoreRaceNext ==
    \/ \E n \in 1..NumMedia : uploadFiles(n, 0)
    \/ \E b \in RaceEventBodies : createEvent(b)
    \/ \E id \in EventIds : deleteEvent(id)
    \/ \E p \in Procs, id \in EventIds \cap DOMAIN content : restoreEvent_find(p, id)
    \/ \E p \in Procs : restoreEvent_restore(p)
    \/ \E p \in Procs : restoreEvent_usage(p)
    \/ \E p \in Procs : restoreEvent_populate(p)

RestoreRaceSpec == Init /\ [][RestoreRaceNext]_vars

\* ------------------------------ several items on the same assets
\* two events and a blog, one request at a time
SharedBlogBodies ==
    {[heroImage |-> h] : h \in MediaIds} \cup {[video |-> v] : v \in Refs}

SharedNext ==
    \/ uploadFiles(1, 0)
    \/ \E b \in ShareEventBodies : createEvent(b)
    \/ \E b \in ShareBlogBodies : createBlog(b)
    \/ \E id \in EventIds \cap DOMAIN content, b \in HeroBodies :
          updateEvent(id, b)
    \/ \E id \in BlogIds \cap DOMAIN content, b \in SharedBlogBodies :
          updateBlog(id, b)
    \/ \E id \in EventIds : deleteEvent(id)
    \/ \E id \in BlogIds : deleteBlog(id)
    \/ \E id \in EventIds : restoreEvent(id)
    \/ \E id \in BlogIds : restoreBlog(id)

SharedSpec == Init /\ [][SharedNext]_vars

\* ------------------------------ fetches, soft deletes and restores of one
\* event, interleaved
LifeEventBodies ==
    {[title |-> TitleG, status |-> "published", heroImage |-> FirstMedia]}

LifeRaceNext ==
    \/ uploadFiles(1, 0)
    \/ \E b \in LifeEventBodies : createEvent(b)
    \/ \E p \in Procs, id \in EventIds \cap DOMAIN content :
          getEvent_find(p, id, FALSE)
    \/ \E p \in Procs : getEvent_save(p)
    \/ \E p \in Procs, id \in EventIds \cap DOMAIN content : deleteEvent_find(p, id)
    \/ \E p \in Procs : deleteEvent_softDelete(p)
    \/ \E p \in Procs : deleteEvent_pull(p)
    \/ \E p \in Procs, id \in EventIds \cap DOMAIN content : restoreEvent_find(p, id)
    \/ \E p \in Procs : restoreEvent_restore(p)
    \/ \E p \in Procs : restoreEvent_usage(p)
    \/ \E p \in Procs : restoreEvent_populate(p)

LifeRaceSpec == Init /\ [][LifeRaceNext]_vars

\* ------------------------------------ uploads whose Media.create may throw
UploadFailNext ==
    \/ \E n \in 1..NumMedia, k \in 0..NumMedia : uploadFiles(n, k)
    \/ \E b \in RaceEventBodies : createEvent(b)
    \/ \E id \in EventIds \cap DOMAIN content, b \in HeroBodies : updateEvent(id, b)
    \/ \E id \in EventIds : deleteEvent(id)
    \/ \E id \in EventIds : restoreEvent(id)
    \/ \E id \in MediaIds, uf \in BOOLEAN : deleteMedia(id, uf)
    \/ \E failing \in SUBSET MediaIds : deleteUnusedMedia(failing)

UploadFailSpec == Init /\ [][UploadFailNext]_vars

\* =========================================================== authentication
\* One user account. users is its User document: refreshToken is the stored
\* token, signed the number of refresh tokens signed for it so far (token k
\* is the k-th one). cookies is the browser of that user: refreshToken is the
\* cookie it holds, beforeLogout the last token signed before its latest
\* logout from a session.

\* req.user when no middleware has set it
NoUser == "undefined"

TheUser == "user"

\* a refreshToken cookie that jwt.verify rejects
BadToken == 0 - 1

\* user.generateRefreshToken(): signs a new token and keeps it on the document
generateRefreshToken(user) ==
    [user EXCEPT !.signed = @ + 1, !.refreshToken = user.signed + 1]

\* user.verifyRefreshToken(token)
verifyRefreshToken(user, token) == user.refreshToken = token

\* jwt.verify(token, JWT_REFRESH_SECRET) does not throw
jwtVerify(token) == token \in 1..users.signed

\* login; valid: the email is known and the password matches
login(valid) ==
    /\ IF ~valid
       THEN /\ Respond("login", "401")
            /\ UNCHANGED <<users, cookies>>
       ELSE /\ users.signed < MaxTokens
            /\ users' = generateRefreshToken(users)
            /\ cookies' = [cookies EXCEPT !.refreshToken = users'.refreshToken]
            /\ Respond("login", "200")
    /\ UNCHANGED <<content, media, files, clock, procs>>

\* refreshToken for a request whose refreshToken cookie is token
refreshToken(token) ==
    /\ IF token = NoToken \/ ~jwtVerify(token) \/ ~verifyRefreshToken(users, token)
       THEN /\ Respond("refreshToken", "401")
            /\ UNCHANGED <<users, cookies>>
       ELSE /\ users.signed < MaxTokens
            /\ users' = generateRefreshToken(users)
            /\ cookies' = [cookies EXCEPT !.refreshToken = users'.refreshToken]
            /\ Respond("refreshToken", "200")
    /\ UNCHANGED <<content, media, files, clock, procs>>

\* changePassword, behind authenticate: the caller holds an access token, so
\* the user has logged in before; correct: currentPassword matches
changePassword(correct) ==
    /\ users.signed > 0
    /\ IF ~correct
       THEN /\ Respond("changePassword", "401")
            /\ UNCHANGED <<users, cookies>>
       ELSE /\ users.signed < MaxTokens
            /\ users' = generateRefreshToken(users)
            /\ cookies' = [cookies EXCEPT !.refreshToken = users'.refreshToken]
            /\ Respond("changePassword", "200")
    /\ UNCHANGED <<content, media, files, clock, procs>>

\* logout with reqUser in req.user
logout(reqUser) ==
    /\ users' = IF reqUser # NoUser
                THEN [users EXCEPT !.refreshToken = NoToken]
                ELSE users
    /\ cookies' = [refreshToken |-> NoToken,
                   beforeLogout |-> IF cookies.refreshToken # NoToken
                                    THEN users.signed
                                    ELSE cookies.beforeLogout]
    /\ Respond("logout", "200")
    /\ UNCHANGED <<content, media, files, clock, procs>>

\* POST /auth/logout: registered before router.use(authenticate), so no
\* middleware has set req.user when the handler runs
route_logout == logout(NoUser)

\* the cookies a request can carry: none, a forged one, any token signed so far
Presented == {NoToken, BadToken} \cup 1..users.signed

AuthNext ==
    \/ \E valid \in BOOLEAN : login(valid)
    \/ \E t \in Presented : refreshToken(t)
    \/ route_logout
    \/ \E correct \in BOOLEAN : changePassword(correct)

AuthSpec == Init /\ [][AuthNext]_vars

\* ================================================================ claims
\* the assets a document holds through one media field
refsOf(doc, field) ==
    CASE field = "heroImage" -> {doc.heroImage} \ {NoRef}
      [] field = "gallery"   -> SeqToSet(doc.gallery)
      [] field = "video"     -> {doc.video} \ {NoRef}

Live(id) == id \in DOMAIN content /\ ~content[id].isDeleted

\* C1 (I1): in every state reached by create, update, soft delete and
\* restore requests run one at a time, every asset M that exists and is held
\* by a non-deleted item C through field F carries the tuple (type(C), C.id, F)
\* exactly once.
C1_ExactlyOneTuple ==
    \A id \in DOMAIN content :
        ~content[id].isDeleted =>
            \A f \in Fields :
                \A m \in refsOf(content[id], f) \cap DOMAIN media :
                    media[m].usedIn[Usage(ModelOf(id), id, f)] = 1

\* a restored event and a live blog that hold existing assets through every
\* field they have
C1_Witness ==
    /\ resp.op = "restoreEvent" /\ resp.code = "200"
    /\ \E e \in EventIds, b \in BlogIds :
        /\ Live(e) /\ Live(b)
        /\ content[e].heroImage \in DOMAIN media
        /\ content[e].gallery # <<>>
        /\ SeqToSet(content[e].gallery) \subseteq DOMAIN media
        /\ content[b].heroImage \in DOMAIN media
        /\ content[b].video \in DOMAIN media
        /\ content[b].gallery # <<>>
        /\ SeqToSet(content[b].gallery) \subseteq DOMAIN media

\* C2 (I2): in every such state, every tuple (T, id, F) in the usedIn of an
\* asset M names a stored, non-deleted item of type T whose field F holds M.
C2_TuplesAreLiveReferences ==
    \A m \in DOMAIN media :
        \A t \in UsageTuples :
            media[m].usedIn[t] > 0 =>
                /\ t.modelId \in DOMAIN content
                /\ ModelOf(t.modelId) = t.model
                /\ ~content[t.modelId].isDeleted
                /\ m \in refsOf(content[t.modelId], t.field)

\* a soft-deleted blog that still stores references to existing assets, one
\* of them used by a live event, after an update changed a reference
C2_Witness ==
    /\ resp.op = "updateEvent" /\ resp.code = "200"
    /\ \E e \in EventIds, b \in BlogIds :
        /\ Live(e)
        /\ b \in DOMAIN content /\ content[b].isDeleted
        /\ content[b].heroImage \in DOMAIN media
        /\ content[b].video \in DOMAIN media
        /\ content[e].heroImage = content[b].heroImage
        /\ media[content[e].heroImage].usedIn[Usage("Event", e, "heroImage")] = 1

OwnTuplesOnly(id, doc, m) ==
    [t \in UsageTuples |->
        IF t.model = ModelOf(id) /\ t.modelId = id /\ m \in refsOf(doc, t.field)
        THEN 1 ELSE 0]

\* C5 as stated: after a create with heroImage = M, M existing and unused,
\* M.usedIn is exactly the one tuple (type(C), C.id, "heroImage").
C5_Creation_Original ==
    [][\A id \in DOMAIN content' \ DOMAIN content :
         LET m == content'[id].heroImage
         IN (m \in DOMAIN media /\ UsedInLength(media[m].usedIn) = 0) =>
                media'[m].usedIn =
                    [EmptyUsedIn EXCEPT ![Usage(ModelOf(id), id, "heroImage")] = 1]
      ]_vars

\* C5 as amended: after such a create M.usedIn holds the heroImage tuple of C
\* once, and besides it only the gallery and video tuples of C for M, once
\* each, when C holds M in those fields too; it is the one-element collection
\* when C holds M as heroImage only.
C5_Creation ==
    [][\A id \in DOMAIN content' \ DOMAIN content :
         LET m == content'[id].heroImage
         IN (m \in DOMAIN media /\ UsedInLength(media[m].usedIn) = 0) =>
                /\ media'[m].usedIn = OwnTuplesOnly(id, content'[id], m)
                /\ media'[m].usedIn[Usage(ModelOf(id), id, "heroImage")] = 1
                /\ (m \notin SeqToSet(content'[id].gallery)
                    /\ m # content'[id].video) =>
                       UsedInLength(media'[m].usedIn) = 1
      ]_vars

\* a blog has just been created on an asset that now carries its heroImage
\* tuple and nothing else
C5_Witness ==
    /\ resp.op = "createBlog" /\ resp.code = "201"
    /\ \E b \in BlogIds :
        /\ Live(b)
        /\ content[b].heroImage \in DOMAIN media
        /\ media[content[b].heroImage].usedIn =
              [EmptyUsedIn EXCEPT ![Usage("Blog", b, "heroImage")] = 1]

\* C6 (P2): a successful update that changes heroImage from A to B leaves
\* the item's heroImage tuple absent from A and present once on B, and every
\* asset in both the old and the new gallery keeps its gallery tuple once.
C6_DeltaCorrect ==
    [][(resp'.op \in {"updateEvent", "updateBlog"} /\ resp'.code = "200") =>
         \A id \in DOMAIN content :
            ~content[id].isDeleted =>
              LET old == content[id]
                  new == content'[id]
                  th  == Usage(ModelOf(id), id, "heroImage")
                  tg  == Usage(ModelOf(id), id, "gallery")
              IN /\ (old.heroImage # new.heroImage /\ old.heroImage # NoRef
                     /\ new.heroImage # NoRef) =>
                        /\ old.heroImage \in DOMAIN media' =>
                              media'[old.heroImage].usedIn[th] = 0
                        /\ new.heroImage \in DOMAIN media' =>
                              media'[new.heroImage].usedIn[th] = 1
                 /\ \A g \in (SeqToSet(old.gallery) \cap SeqToSet(new.gallery))
                               \cap DOMAIN media' :
                        /\ media'[g].usedIn[tg] = 1
                        /\ media'[g].usedIn[tg] = media[g].usedIn[tg]
      ]_vars

\* an update has just succeeded on a blog whose heroImage tuple sits on one
\* asset and not on the other, and whose gallery asset carries its tuple
C6_Witness ==
    /\ resp.op = "updateBlog" /\ resp.code = "200"
    /\ \E b \in BlogIds, A \in DOMAIN media, B \in DOMAIN media :
        /\ Live(b) /\ A # B
        /\ content[b].heroImage = B
        /\ media[B].usedIn[Usage("Blog", b, "heroImage")] = 1
        /\ media[A].usedIn[Usage("Blog", b, "heroImage")] = 0
        /\ content[b].gallery # <<>>
        /\ \A g \in SeqToSet(content[b].gallery) :
              g \in DOMAIN media /\ media[g].usedIn[Usage("Blog", b, "gallery")] = 1

\* C7 (P4): for every live item whose referenced assets all exist and are
\* not deleted, a soft delete followed at once by a restore leaves the
\* usedIn of every referenced asset as it was before the soft delete.
C7_RoundTrip ==
    \A id \in DOMAIN content :
        (/\ ~content[id].isDeleted
         /\ \A m \in mediaIdsOf(content[id]) : findMediaById(media, m)) =>
            LET d == deleteResult(content, media, id, clock)
                r == restoreResult(d.content, d.media, id, clock)
            IN /\ d.code = "200" /\ r.code = "200"
               /\ \A m \in mediaIdsOf(content[id]) :
                     r.media[m].usedIn = media[m].usedIn

\* a blog restored after its soft delete, holding existing assets through
\* all three fields, one of them shared with a live event
C7_Witness ==
    /\ resp.op = "restoreBlog" /\ resp.code = "200"
    /\ \E b \in BlogIds, e \in EventIds :
        /\ Live(b) /\ Live(e)
        /\ content[b].gallery # <<>>
        /\ mediaIdsOf(content[b]) \subseteq DOMAIN media
        /\ content[b].video # NoRef
        /\ content[e].heroImage = content[b].video

\* C4 (I3 under interleaving): whenever a request removes an asset record
\* while creations that push a tuple to the same asset are in flight, the
\* stored usedIn of that record is empty at the moment of the removal.
C4_NeverRemovedWhileUsed ==
    [][\A m \in DOMAIN media \ DOMAIN media' :
          UsedInLength(media[m].usedIn) = 0]_vars

\* C8 (P6): every creation of an item with the one title ends with the item
\* stored under a slug no other stored item, Event or Blog, carries, also
\* when creations interleave and their hooks read the same clock value.
C8_IdenticalTitlesAllStored ==
    [][\A p \in Procs :
          (procs[p].pc = "insert" /\ procs'[p].pc # "insert")
          => /\ procs[p].id \in DOMAIN content'
             /\ \A j \in DOMAIN content' \ {procs[p].id} :
                    content'[j].slug # content'[procs[p].id].slug]_vars

\* C9 (I4): no two stored content items share a slug, Events and Blogs taken
\* together, soft-deleted items included.
C9_SlugsUniqueAcrossTypes ==
    \A i, j \in DOMAIN content : i # j => content[i].slug # content[j].slug

\* C10 (I5): publishedAt of an item is unset until the first save that leaves
\* the item with status published, is set to the time of that save, and once
\* set it keeps its value through every later request (status change, other
\* update, view increment, soft delete, restore).
C10_PublishedAtOnce ==
    [][\A id \in DOMAIN content' :
          LET before == IF id \in DOMAIN content
                        THEN content[id].publishedAt ELSE NoDate
              saved  == id \notin DOMAIN content \/ content'[id] # content[id]
              after  == content'[id]
          IN /\ before # NoDate => after.publishedAt = before
             /\ (before = NoDate /\ saved /\ after.status = "published")
                    => after.publishedAt = clock
             /\ (before = NoDate /\ ~(saved /\ after.status = "published"))
                    => after.publishedAt = NoDate
             /\ after.status = "published" => after.publishedAt # NoDate]_vars

\* an item published at time 1 that has since been archived, viewed, soft
\* deleted and, at a later time, restored
C10_Witness ==
    \E id \in DOMAIN content :
        /\ content[id].publishedAt = 1
        /\ clock = 2
        /\ content[id].status = "archived"
        /\ content[id].views > 0
        /\ ~content[id].isDeleted
        /\ resp.op \in {"restoreEvent", "restoreBlog"}
        /\ resp.code = "200"

\* C11: deleteEvent / deleteBlog on a stored item that is not soft-deleted
\* succeeds, sets isDeleted and deletedAt (the time of the request), leaves the
\* item's heroImage, gallery and video as stored, and leaves no asset the item
\* references with a usage tuple of that item.
C11_SoftDeleteDetaches ==
    [][\A id \in DOMAIN content :
          ((deleteEvent(id) \/ deleteBlog(id)) /\ ~content[id].isDeleted) =>
             /\ resp'.code = "200"
             /\ content'[id].isDeleted
             /\ content'[id].deletedAt = clock
             /\ content'[id].heroImage = content[id].heroImage
             /\ content'[id].gallery = content[id].gallery
             /\ content'[id].video = content[id].video
             /\ DOMAIN media' = DOMAIN media
             /\ \A m \in mediaIdsOf(content[id]) \cap DOMAIN media' :
                   \A t \in UsageTuples :
                      t.modelId = id => media'[m].usedIn[t] = 0]_vars

\* a blog just soft-deleted that keeps its three media fields, all naming
\* stored assets, one of which is still used by a live event
C11_Witness ==
    /\ resp.op = "deleteBlog" /\ resp.code = "200"
    /\ \E b \in BlogIds, e \in EventIds :
        /\ b \in DOMAIN content /\ content[b].isDeleted
        /\ content[b].deletedAt # NoDate
        /\ content[b].heroImage \in DOMAIN media
        /\ content[b].gallery # <<>>
        /\ content[b].video \in DOMAIN media
        /\ \A m \in DOMAIN media : \A t \in UsageTuples :
              t.modelId = b => media[m].usedIn[t] = 0
        /\ Live(e)
        /\ content[e].heroImage = content[b].video
        /\ media[content[e].heroImage].usedIn[Usage("Event", e, "heroImage")] = 1

\* the status of the ApiError a handler throws for an illegal lifecycle
\* transition ("Event is not deleted", "Blog is not deleted")
InvalidState == "400"

\* C12: restoreEvent / restoreBlog on a stored item that is not soft-deleted
\* fails with the InvalidState error and leaves every item and the usedIn of
\* every asset as they were.
C12_RestoreOfActiveRejected ==
    [][\A id \in DOMAIN content :
          ((restoreEvent(id) \/ restoreBlog(id)) /\ ~content[id].isDeleted) =>
             /\ resp'.code = InvalidState
             /\ content' = content
             /\ media' = media]_vars

\* a refused restore of a live event whose hero asset carries its tuple once
C12_Witness ==
    /\ resp.op = "restoreEvent" /\ resp.code = InvalidState
    /\ \E e \in EventIds :
        /\ Live(e)
        /\ content[e].heroImage \in DOMAIN media
        /\ media[content[e].heroImage].usedIn[Usage("Event", e, "heroImage")] = 1

\* C13: deleteEvent / deleteBlog on an item that is already soft-deleted fails
\* with the InvalidState error and leaves the item's isDeleted and deletedAt
\* and the usedIn of every asset as they were.
C13_DeleteOfDeletedInvalidState ==
    [][\A id \in DOMAIN content :
          ((deleteEvent(id) \/ deleteBlog(id)) /\ content[id].isDeleted) =>
             /\ resp'.code = InvalidState
             /\ content'[id].isDeleted = content[id].isDeleted
             /\ content'[id].deletedAt = content[id].deletedAt
             /\ media' = media]_vars

\* C14: while an item is soft-deleted no default read path returns it: the
\* fetch by id and the fetch by its slug answer 404 and change nothing, and
\* no listing holds it, whoever asks and whatever status filter is passed;
\* an item that is not soft-deleted (never deleted, or restored) is returned
\* to an admin by the fetch by id and by the listing of all statuses, and
\* when published by the fetch by its slug.
C14_DeletedHiddenFromReads ==
    [][\A id \in DOMAIN content :
          /\ (\E a \in BOOLEAN : getEvent(id, a) \/ getBlog(id, a))
                => IF content[id].isDeleted
                   THEN resp'.code = "404" /\ content' = content
                   ELSE getEvent(id, TRUE) \/ getBlog(id, TRUE)
                           => resp'.code = "200"
          /\ ((getEventBySlug(content[id].slug) /\ id \in EventIds)
              \/ (getBlogBySlug(content[id].slug) /\ id \in BlogIds))
                => IF content[id].isDeleted
                   THEN resp'.code = "404" /\ content' = content
                   ELSE content[id].status = "published" => resp'.code = "200"
          /\ \A a \in BOOLEAN, st \in StatusFilters :
                ((getEvents(a, st) /\ id \in EventIds)
                 \/ (getBlogs(a, st) /\ id \in BlogIds))
                => IF content[id].isDeleted
                   THEN id \notin resp'.items
                   ELSE (a /\ st = "all") => id \in resp'.items]_vars

\* a published item that was viewed, then soft-deleted, and is refused to a
\* reader who asks for it by its slug
C14_Witness ==
    /\ resp.op \in {"getEventBySlug", "getBlogBySlug"}
    /\ resp.code = "404"
    /\ \E id \in DOMAIN content :
        /\ content[id].isDeleted
        /\ content[id].status = "published"
        /\ content[id].views > 0

\* C15: restoreEvent / restoreBlog on a soft-deleted item one of whose
\* referenced assets is missing or soft-deleted succeeds and makes the item
\* active, re-adds the item's tuple on every other referenced asset, adds
\* none for the missing asset, and names the skipped assets in its response.
C15_PartialRestoreReported ==
    [][\A id \in DOMAIN content :
          LET missing == {m \in mediaIdsOf(content[id]) :
                             ~findMediaById(media, m)}
          IN ((restoreEvent(id) \/ restoreBlog(id))
              /\ content[id].isDeleted /\ missing # {}) =>
                /\ resp'.code = "200"
                /\ ~content'[id].isDeleted
                /\ DOMAIN media' = DOMAIN media
                /\ \A f \in FieldsOf(ModelOf(id)) :
                      \A m \in refsOf(content[id], f) \ missing :
                         media'[m].usedIn[Usage(ModelOf(id), id, f)] >= 1
                /\ resp'.failed = missing]_vars

\* the effect of a usage update is present in the stored usedIn
StepHolds(med, s) ==
    \A m \in s.ids \cap DOMAIN med :
        IF s.op = "$push" THEN med[m].usedIn[s.t] >= 1
        ELSE IF s.op = "$pull" THEN med[m].usedIn[s.t] = 0
        ELSE \A t \in UsageTuples :
                (t.model = s.t.model /\ t.modelId = s.t.modelId)
                   => med[m].usedIn[t] = 0

\* C16: when one usage update of updateEvent or restoreEvent fails, the
\* handler goes on: the effect of every other usage update of the request is
\* in the store afterwards, and the response names the assets of the failed
\* update.
C16_DeltaContinuesAfterFailure ==
    [][/\ \A id \in EventIds \cap DOMAIN content, b \in EventUpdateBodies,
             k \in 1..4 :
             updateEventFailing(id, b, k) =>
                LET steps == updateEventSteps(id, content[id], content'[id])
                IN /\ \A j \in (1..4) \ {k} :
                         steps[j].awaited => StepHolds(media', steps[j])
                   /\ resp'.failed = steps[k].ids
       /\ \A id \in EventIds \cap DOMAIN content, k \in 1..2 :
             restoreEventFailing(id, k) =>
                LET steps == restoreEventSteps(id, content'[id])
                IN /\ \A j \in (1..2) \ {k} :
                         steps[j].awaited => StepHolds(media', steps[j])
                   /\ resp'.failed = steps[k].ids]_vars

\* C17: when a usage update of updateEvent, deleteEvent or restoreEvent
\* fails, the saved change of the item stays stored, and the caller gets the
\* handler's success response carrying the failed assets, not a plain error.
C17_EntityChangeKeptAndReported ==
    [][\A id \in EventIds \cap DOMAIN content :
          ((\E b \in EventUpdateBodies, k \in 1..4 : updateEventFailing(id, b, k))
           \/ deleteEventFailing(id)
           \/ (\E k \in 1..2 : restoreEventFailing(id, k))) =>
             /\ resp'.op = "deleteEvent" => content'[id].isDeleted
             /\ resp'.op = "restoreEvent" => ~content'[id].isDeleted
             /\ resp'.op = "updateEvent" =>
                   \E b \in EventUpdateBodies :
                      content'[id] = updatedDocument(content[id], b,
                                                     EventPaths, clock)
             /\ resp'.code = "200"
             /\ resp'.failed # {}]_vars

\* C18: every fetch of a published item that completes, by id or by slug,
\* raises the item's stored views by exactly one, whatever other fetches of
\* the item are in flight; so N completed fetches raise it by N.
C18_NoLostViewIncrement ==
    [][\A p \in Procs :
          (procs[p].pc = "saveViews" /\ procs'[p].pc = "idle") =>
             content'[procs[p].id].views = content[procs[p].id].views + 1]_vars

\* C19: with requests run one at a time, each step raises an item's views by
\* one when it is a successful fetch of that item, by id or by slug, made
\* while the item is published and not deleted, and leaves views as they
\* were otherwise (failed fetches, admin fetches of draft or archived items,
\* listings, updates, soft delete, restore); a new item starts at zero.
C19_ViewsCountFetches ==
    [][\A id \in DOMAIN content' :
          LET before  == IF id \in DOMAIN content THEN content[id].views ELSE 0
              fetched ==
                 /\ id \in DOMAIN content
                 /\ content[id].status = "published"
                 /\ ~content[id].isDeleted
                 /\ resp'.code = "200"
                 /\ \/ \E a \in BOOLEAN : getEvent(id, a) \/ getBlog(id, a)
                    \/ (id \in EventIds /\ getEventBySlug(content[id].slug))
                    \/ (id \in BlogIds /\ getBlogBySlug(content[id].slug))
          IN content'[id].views = before + (IF fetched THEN 1 ELSE 0)]_vars

\* an item fetched MaxViews times while published, archived since, whose
\* last fetch by a non-admin was refused
C19_Witness ==
    /\ resp.op \in {"getEvent", "getBlog"}
    /\ resp.code = "403"
    /\ \E id \in DOMAIN content :
        /\ content[id].views = MaxViews
        /\ content[id].status = "archived"
        /\ ~content[id].isDeleted

\* C20: once the updateEvent calls on an item have completed, interleaved or
\* not, the usedIn of every asset matches the item's stored heroImage: the
\* asset held carries the item's heroImage tuple exactly once and no other
\* asset carries it. (No path of updateEvent answers Conflict.)
C20_UsageMatchesAfterUpdates ==
    (\A p \in Procs : procs[p] = Idle) =>
       \A id \in EventIds \cap DOMAIN content : \A m \in DOMAIN media :
          media[m].usedIn[Usage("Event", id, "heroImage")]
             = IF content[id].heroImage = m THEN 1 ELSE 0

\* no request is between two of its awaits
Quiescent == \A p \in Procs : procs[p] = Idle

\* C21: when requests on different items add or remove tuples on one asset
\* between each other's awaits (two creations, or a creation and the soft
\* delete of another item), then once all of them have completed the asset
\* carries the tuple of every reference of every non-deleted item, once, and
\* no tuple of a deleted item: no request's write loses or overwrites a tuple
\* of another item.
C21_NoTupleLostAcrossItems ==
    Quiescent =>
        \A m \in DOMAIN media, id \in ItemIds :
            \A f \in FieldsOf(ModelOf(id)) :
                media[m].usedIn[Usage(ModelOf(id), id, f)]
                    = IF Live(id) /\ m \in refsOf(content[id], f) THEN 1 ELSE 0

\* two events and a blog were created on one asset, one of the events is
\* soft-deleted, and the asset carries the tuples of the other two items
C21_Witness ==
    /\ Quiescent
    /\ \E e1 \in EventIds, e2 \in EventIds, b \in BlogIds :
        /\ e1 # e2 /\ Live(e1) /\ Live(b)
        /\ e2 \in DOMAIN content /\ content[e2].isDeleted
        /\ content[e2].heroImage = FirstMedia
        /\ content[e1].heroImage = FirstMedia
        /\ content[b].heroImage = FirstMedia
        /\ FirstMedia \in DOMAIN media
        /\ media[FirstMedia].usedIn[Usage("Event", e1, "heroImage")] = 1
        /\ media[FirstMedia].usedIn[Usage("Blog", b, "heroImage")] = 1
        /\ UsedInLength(media[FirstMedia].usedIn) >= 2

\* C22: a call of Media.addUsage(model, modelId, field) leaves a usedIn that
\* a second call with the same arguments does not change, and answers without
\* an error; Media.removeUsage of a tuple that usedIn does not contain leaves
\* the asset as it was and answers without an error.
C22_UsageMethodsIdempotent ==
    [][\A id \in MediaIds, t \in EventTuples :
          /\ callAddUsage(id, t) =>
                /\ addUsage(media'[id], t.model, t.modelId, t.field) = media'[id]
                /\ media'[id].usedIn[t] = IF media[id].usedIn[t] = 0
                                          THEN 1 ELSE media[id].usedIn[t]
                /\ resp'.code = "ok"
          /\ (callRemoveUsage(id, t) /\ media[id].usedIn[t] = 0) =>
                /\ media' = media
                /\ resp'.code = "ok"]_vars

\* addUsage has answered and an asset no item references carries one tuple,
\* once, next to an asset without tuples
C22_Witness ==
    /\ resp.op = "addUsage" /\ resp.code = "ok"
    /\ content = <<>>
    /\ \E id \in DOMAIN media, other \in DOMAIN media :
        /\ UsedInLength(media[id].usedIn) = 1
        /\ UsedInLength(media[other].usedIn) = 0

\* the usage updates of one reference delta of item id, from the references
\* of old to those of new: create and restore start from no references
applyDelta(med, id, old, new) ==
    LET m1 == swapRef(med, id, "heroImage", old.heroImage, new.heroImage)
        m2 == swapGallery(m1, id, old.gallery, new.gallery)
    IN IF ModelOf(id) = "Blog"
       THEN swapRef(m2, id, "video", old.video, new.video)
       ELSE m2

\* the references item id counted for before a step: none unless it was
\* stored and not deleted
refsBefore(id) == IF Live(id) THEN content[id] ELSE NewDoc

\* C23: after a create, update or restore has applied the reference delta of
\* an item, applying the same delta (same item, assets and fields) once more
\* leaves the usedIn of every asset as it is.
C23_DeltaReapplied ==
    [][\A id \in ItemIds :
          (/\ resp'.op \in {"createEvent", "createBlog", "updateEvent",
                            "updateBlog", "restoreEvent", "restoreBlog"}
           /\ resp'.code \in {"200", "201"}
           /\ id \in DOMAIN content'
           /\ (id \notin DOMAIN content \/ content[id] # content'[id]))
          => applyDelta(media', id, refsBefore(id), content'[id]) = media']_vars

\* item id holds the same heroImage, gallery and video before and after a step
SameRefs(id) ==
    /\ id \in DOMAIN content'
    /\ content'[id].heroImage = content[id].heroImage
    /\ content'[id].gallery = content[id].gallery
    /\ content'[id].video = content[id].video

\* C24: an updateEvent / updateBlog whose patch leaves heroImage, gallery and
\* video as stored (the path is absent from the patch or carries the stored
\* value) leaves the usedIn of every asset unchanged. Every step that answers
\* an update request is such an update when no stored item changes a reference.
C24_UnchangedRefsKeepUsage ==
    [][(/\ resp'.op \in {"updateEvent", "updateBlog"}
        /\ \A id \in DOMAIN content : SameRefs(id))
       => media' = media]_vars

\* an update has answered 200 for a blog that holds stored assets through
\* heroImage, gallery and video, each asset carrying its tuple once
C24_Witness ==
    /\ resp.op = "updateBlog" /\ resp.code = "200"
    /\ \E b \in BlogIds :
        /\ Live(b)
        /\ content[b].gallery # <<>>
        /\ \A f \in Fields :
            /\ refsOf(content[b], f) # {}
            /\ \A m \in refsOf(content[b], f) :
                /\ m \in DOMAIN media
                /\ media[m].usedIn[Usage("Blog", b, f)] = 1

\* C25: the slug of a stored item changes only in a step whose save changes
\* its title: updates that send no title or the stored title, fetches that
\* count a view, soft deletes and restores all leave the slug as it is.
C25_SlugChangesOnlyWithTitle ==
    [][\A id \in DOMAIN content :
          content'[id].slug # content[id].slug
              => content'[id].title # content[id].title]_vars

\* after the clock has moved on, a restore has answered 200 for an item that
\* was fetched and whose title an update changed: its slug carries the time
\* of that update, not of its creation
C25_Witness ==
    /\ resp.op \in {"restoreEvent", "restoreBlog"} /\ resp.code = "200"
    /\ clock = MaxClock
    /\ \E id \in DOMAIN content :
        /\ content[id].views > 0
        /\ content[id].title = Trim(TitleH)
        /\ content[id].slug = generateSlug(Trim(TitleH), MaxClock)

\* C26: deleteUnusedMedia treats each unused asset on its own: the assets
\* whose deletion does not fail are all removed whatever fails for others,
\* the record of each failed asset is still stored, unchanged, and the
\* reported deleted count plus the number of reported errors is the number of
\* unused assets found.
C26_BulkDeleteIndependent ==
    [][resp'.op = "deleteUnusedMedia" =>
          LET unusedMedia == findUnused(media)
          IN /\ resp'.total = Cardinality(unusedMedia)
             /\ resp'.deleted + Cardinality(resp'.failed) = resp'.total
             /\ resp'.failed \subseteq unusedMedia
             /\ \A m \in resp'.failed : m \in DOMAIN media' /\ media'[m] = media[m]
             /\ \A m \in unusedMedia \ resp'.failed : m \notin DOMAIN media'
             /\ resp'.deleted = Cardinality(unusedMedia \ resp'.failed)]_vars

\* a bulk deletion found two unused assets, failed on the one with the
\* smaller id and deleted the other
C26_Witness ==
    /\ resp.op = "deleteUnusedMedia"
    /\ resp.total = 2 /\ resp.deleted = 1
    /\ resp.failed = {FirstMedia}
    /\ FirstMedia \in DOMAIN media
    /\ \A m \in MediaIds \ {FirstMedia} : m \notin DOMAIN media

\* C27: the listing requested with unused=true through the validated route
\* answers 200 with exactly the stored, non-deleted assets whose usedIn is
\* empty, and with no asset whose usedIn is non-empty.
C27_UnusedListing ==
    [][getMediaRoute("true") =>
          /\ resp'.code = "200"
          /\ resp'.items = findUnused(media)
          /\ \A m \in resp'.items : ~isInUse(media[m])]_vars

\* a step answers a request without changing an item or a usedIn
RejectedUntouched ==
    /\ resp'.code \in {"401", "403", "400"}
    /\ content' = content
    /\ media' = media

\* a step is the route's answer to a request whose sender has no valid token
\* or is not admin, or whose body the route's schema rejects
FailingRequest ==
    \/ \E c \in Callers, b \in RawCreateBodies :
          /\ c # "admin" \/ ~createSchemaAccepts(b)
          /\ route_createEvent(c, b) \/ route_createBlog(c, b)
    \/ \E c \in Callers, id \in ItemIds, b \in RawUpdateBodies :
          /\ c # "admin" \/ ~updateSchemaAccepts(b)
          /\ route_updateEvent(c, id, b) \/ route_updateBlog(c, id, b)
    \/ \E c \in Callers \ {"admin"}, id \in ItemIds :
          \/ route_deleteEvent(c, id) \/ route_restoreEvent(c, id)
          \/ route_deleteBlog(c, id) \/ route_restoreBlog(c, id)

C29_UnlinkOnlyAfterCheck ==
    [][/\ \A p \in Procs, id \in DOMAIN media :
            (deleteMedia_find(p, id) /\ isInUse(media[id])) =>
                /\ files' = files
                /\ procs'[p] = Idle
                /\ resp'.op = "deleteMedia" /\ resp'.code = "400"
       /\ \A p \in Procs :
            (procs[p] = Idle /\ procs'[p].op = "deleteMedia") =>
                /\ procs'[p].pc = "unlink"
                /\ procs'[p].id \in DOMAIN media
                /\ ~isInUse(media[procs'[p].id])
                /\ files' = files
       /\ \A f \in files \ files' :
            \E p \in Procs : procs[p].pc = "unlink" /\ procs[p].id = f]_vars

\* a deleteMedia of an asset in use was answered 400 and the asset's file is
\* on disk, while another deleteMedia has removed the file of its asset
C29_Witness ==
    /\ resp.op = "deleteMedia" /\ resp.code = "400"
    /\ \E m \in DOMAIN media : isInUse(media[m]) /\ m \in files
    /\ \E p \in Procs :
        /\ At(p, "deleteMedia", "deleteOne")
        /\ procs[p].id \notin files

\* C30: when an update and a soft delete of one item have run between each
\* other's awaits and both have answered, and the item is soft-deleted, no
\* asset's usedIn holds a tuple of that item.
C30_DeletedItemHasNoTuples ==
    Quiescent =>
        \A id \in DOMAIN content :
            content[id].isDeleted =>
                \A m \in DOMAIN media, f \in FieldsOf(ModelOf(id)) :
                    media[m].usedIn[Usage(ModelOf(id), id, f)] = 0

\* C31: when two restores of one soft-deleted item have run between each
\* other's awaits and both have answered, every stored asset the item holds
\* carries the item's tuple for each holding field exactly once.
C31_RestoredOnce ==
    (Quiescent /\ resp.op = "restoreEvent") =>
        \A id \in DOMAIN content :
            ~content[id].isDeleted =>
                \A f \in FieldsOf(ModelOf(id)) :
                    \A m \in refsOf(content[id], f) \cap DOMAIN media :
                        media[m].usedIn[Usage(ModelOf(id), id, f)] = 1

\* C32: in every state reached by create, update, soft delete, restore,
\* deleteMedia and deleteUnusedMedia requests, every asset id that a
\* non-deleted item holds in heroImage, gallery or video is the id of a
\* stored asset.
C32_NoDanglingReference ==
    \A id \in DOMAIN content :
        ~content[id].isDeleted =>
            \A f \in FieldsOf(ModelOf(id)) :
                refsOf(content[id], f) \subseteq DOMAIN media

\* C33: the pagination total that getEvents / getBlogs report is the number
\* of non-deleted items matching the filter: it counts the items the listing
\* returns (one page holds them all), none of them soft-deleted.
C33_TotalCountsLiveMatches ==
    resp.op \in {"getEvents", "getBlogs"} =>
        /\ \A id \in resp.items : Live(id)
        /\ resp.total = Cardinality(resp.items)

\* the items a step stores anew or changes
ItemsWritten ==
    {id \in DOMAIN content' : id \notin DOMAIN content \/ content'[id] # content[id]}

\* C34: a create, update, soft delete or restore of one item changes, on any
\* asset, only usage tuples that carry that item's model and id: the tuples of
\* every other item stay as they are, also on assets both items reference.
C34_OtherItemsTuplesKept ==
    [][resp'.op \in {"createEvent", "createBlog", "updateEvent", "updateBlog",
                     "deleteEvent", "deleteBlog", "restoreEvent", "restoreBlog"}
       => /\ Cardinality(ItemsWritten) <= 1
          /\ DOMAIN media' = DOMAIN media
          /\ \A m \in DOMAIN media, t \in UsageTuples :
                media'[m].usedIn[t] # media[m].usedIn[t] =>
                    t.modelId \in ItemsWritten]_vars

\* an event was soft-deleted while another event and a blog hold the same
\* stored asset as heroImage, and the asset carries their two tuples
C34_Witness ==
    /\ resp.op = "deleteEvent" /\ resp.code = "200"
    /\ \E e1 \in EventIds, e2 \in EventIds, b \in BlogIds :
        /\ e1 # e2 /\ Live(e1) /\ Live(b)
        /\ e2 \in DOMAIN content /\ content[e2].isDeleted
        /\ content[e1].heroImage \in DOMAIN media
        /\ content[e2].heroImage = content[e1].heroImage
        /\ content[b].heroImage = content[e1].heroImage
        /\ media[content[e1].heroImage].usedIn[Usage("Event", e1, "heroImage")] = 1
        /\ media[content[e1].heroImage].usedIn[Usage("Blog", b, "heroImage")] = 1
        /\ media[content[e1].heroImage].usedIn[Usage("Event", e2, "heroImage")] = 0

\* C35: in every state, also while fetches that count a view run between the
\* awaits of soft deletes and restores, a stored item has deletedAt set
\* exactly when its isDeleted flag is true.
C35_DeletedAtIffDeleted ==
    \A id \in DOMAIN content :
        (content[id].deletedAt # NoDate) <=> content[id].isDeleted

\* a fetch that loaded the live event is about to save its view count while
\* the event, already viewed and once restored, is soft-deleted again
C35_Witness ==
    /\ \E p \in Procs : At(p, "getEvent", "saveViews")
    /\ \E id \in DOMAIN content :
        /\ content[id].isDeleted
        /\ content[id].deletedAt # NoDate
        /\ content[id].views > 0
    /\ resp.op = "restoreEvent" /\ resp.code = "200"

\* ------------------------------------------------------------------- C36
\* a stored item a reader who is not an admin may be shown
Public(id) ==
    id \in DOMAIN content /\ ~content[id].isDeleted /\ content[id].status = "published"

\* the item a by-slug fetch answered with: the one whose views it counted
Counted == {id \in DOMAIN content : content'[id].views # content[id].views}

\* C36: for a caller who is not an admin (anonymous, or logged in with another
\* role), every item a listing returns, the item a fetch by id answers 200
\* with and the item a fetch by slug answers 200 with are published and not
\* soft-deleted, whatever status filter is passed.
C36_PublicSeesPublishedOnly ==
    [][/\ resp'.op \in {"getEvents", "getBlogs"} =>
            \A st \in StatusFilters :
                (getEvents(FALSE, st) \/ getBlogs(FALSE, st)) =>
                    \A id \in resp'.items : Public(id)
       /\ (resp'.op \in {"getEvent", "getBlog"} /\ resp'.code = "200") =>
            \A id \in DOMAIN content :
                (getEvent(id, FALSE) \/ getBlog(id, FALSE)) => Public(id)
       /\ (resp'.op \in {"getEventBySlug", "getBlogBySlug"} /\ resp'.code = "200") =>
            \A id \in Counted : Public(id)]_vars

\* a reader who is not an admin has asked for a stored draft by id and was
\* refused
C36_Witness ==
    /\ resp.op = "getEvent"
    /\ resp.code = "403"
    /\ \E id \in EventIds \cap DOMAIN content :
        ~content[id].isDeleted /\ content[id].status = "draft"

\* ------------------------------------------------------------------- C37
\* C37: when uploadFiles fails part-way (the Media.create of a later file
\* throws), every record the request has created and left in the store still
\* has its physical file: the cleanup leaves no record of the request
\* pointing at a file it has removed.
C37_FailedUploadLeavesNoOrphanRecord ==
    [][(resp'.op = "uploadFiles" /\ resp'.code = "500") =>
            \A m \in DOMAIN media' \ DOMAIN media : m \in files']_vars

\* ------------------------------------------------------------------- C38
\* C38: when a user who holds a session calls POST /auth/logout, the refresh
\* token stored for the user is cleared, and from then on a refresh-token
\* request presenting a token signed before that logout is answered 401.
C38_LogoutRevokesRefreshToken ==
    [][/\ (resp'.op = "logout" /\ cookies.refreshToken # NoToken) =>
            users'.refreshToken = NoToken
       /\ resp'.op = "refreshToken" =>
            \A t \in 1..cookies.beforeLogout :
                refreshToken(t) => resp'.code = "401"]_vars

====
